---- MODULE Spec2Model ----
(***************************************************************************)
(* State-machine model of the FlashSol arbitrage monitor:                  *)
(*   DataManager (quote cache, price history, opportunity history),        *)
(*   ArbitrageDetector (pricing, fees, confidence, rate-limited gating),   *)
(*   DEXManager and the per-venue push subscriptions,                      *)
(*   ConnectionManager (websocket transport),                              *)
(*   OpportunityTracker, and the RealTimeMonitor orchestrator.             *)
(* Time is Date.now() in milliseconds.  Strings that the program           *)
(* concatenates into map keys are sequences of one-character strings, so   *)
(* that key construction and substring search are computed, not assumed.   *)
(***************************************************************************)
EXTENDS Integers, Sequences, FiniteSets, TLC

VARIABLES
  now,          \* Date.now()
  dataManager,  \* DataManager: priceCache, priceHistory, opportunityHistory, cleanupInterval
  ret,          \* the last operation performed: its name, arguments and result
  lastPut,      \* history variable: per (dex, baseMint, quoteMint) the quote last stored and when
  nPuts,        \* history variable: number of storePriceQuote calls made through the store interface
  monitor,             \* RealTimeMonitor: isRunning, monitoredPairs, slotSubscription, timer handles
  dexManager,          \* DEXManager.dexes: adapter name -> isEnabled, subscriptions
  timers,              \* the setInterval timers created so far; a handle is an index
  connectionManager,   \* ConnectionManager: socket state, reconnect bookkeeping, subscriptions
  arbitrageDetector,   \* ArbitrageDetector: thresholds, recentOpportunities, ids drawn
  opportunityTracker,  \* OpportunityTracker.opportunities
  pendingStarts,       \* start() calls suspended at their await, oldest first
  refreshCycle,        \* a refreshAllPrices call suspended at its fetch: where its loop stands
  stopped,             \* history variable: stop() has returned and start() was not called since
  lastCall,            \* history variable: the public method that last ran (called, or resumed)
  budget               \* history variable: calls made and timer deliveries run

vars == <<now, dataManager, ret, lastPut, nPuts, monitor, dexManager, timers,
          connectionManager, arbitrageDetector, opportunityTracker, pendingStarts, refreshCycle,
          stopped, lastCall, budget>>

orchestrator == <<monitor, dexManager, timers, connectionManager, arbitrageDetector,
                  opportunityTracker, pendingStarts, refreshCycle, stopped, lastCall, budget>>

-----------------------------------------------------------------------------
(* Strings *)

\* String.prototype.includes: sub occurs in s as a contiguous run
includes(s, sub) ==
  \E i \in 1..(Len(s) + 1) :
    /\ i + Len(sub) - 1 <= Len(s)
    /\ SubSeq(s, i, i + Len(sub) - 1) = sub

\* the characters of a venue name or of a token symbol
Chars(name) ==
  CASE name = "Raydium" -> <<"R", "a", "y", "d", "i", "u", "m">>
    [] name = "Orca"    -> <<"O", "r", "c", "a">>
    [] name = "Serum"   -> <<"S", "e", "r", "u", "m">>
    [] name = "SOL"     -> <<"S", "O", "L">>
    [] name = "WSOL"    -> <<"W", "S", "O", "L">>
    [] name = "USDC"    -> <<"U", "S", "D", "C">>

-----------------------------------------------------------------------------
(* Insertion-ordered maps (ECMAScript Map): sequences of [k, v] *)

MapIndex(m, k) ==
  IF \E i \in 1..Len(m) : m[i].k = k
    THEN CHOOSE i \in 1..Len(m) : m[i].k = k
    ELSE 0

MapHas(m, k) == MapIndex(m, k) # 0

MapGet(m, k) == m[MapIndex(m, k)].v

\* Map.set: an existing key keeps its position, a new key goes last
MapSet(m, k, v) ==
  IF MapHas(m, k)
    THEN [m EXCEPT ![MapIndex(m, k)] = [k |-> k, v |-> v]]
    ELSE Append(m, [k |-> k, v |-> v])

MapDelete(m, k) == SelectSeq(m, LAMBDA e : e.k # k)

MapKeys(m) == [i \in 1..Len(m) |-> m[i].k]

\* Array.prototype.slice(-n) for n > 0
SliceLast(s, n) ==
  IF Len(s) <= n THEN s ELSE SubSeq(s, Len(s) - n + 1, Len(s))

\* the one element of a singleton; { e(x) : x \in {v} } names an intermediate
\* value x that is computed once
Only(S) == CHOOSE v \in S : TRUE

-----------------------------------------------------------------------------
(* Configuration and token pairs *)

ttlSeconds == 30

cacheTTL == ttlSeconds * 1000

priceHistorySize == 2

maxHistorySize == priceHistorySize

OpportunityMaxSize == 1000

SOL_USDC ==
  [baseToken |-> "SOL", quoteToken |-> "USDC",
   baseMint |-> <<"S">>, quoteMint |-> <<"E">>]

\* same addresses as SOL_USDC under another display symbol
WSOL_USDC ==
  [baseToken |-> "WSOL", quoteToken |-> "USDC",
   baseMint |-> <<"S">>, quoteMint |-> <<"E">>]

\* another token that displays as SOL; its address ends with SOL's address
XSOL_USDC ==
  [baseToken |-> "SOL", quoteToken |-> "USDC",
   baseMint |-> <<"X", "S">>, quoteMint |-> <<"E">>]

COMMON_PAIRS == <<SOL_USDC>>

SamePair(p, q) == p.baseMint = q.baseMint /\ p.quoteMint = q.quoteMint

Null == [isNull |-> TRUE]

-----------------------------------------------------------------------------
(* DataManager *)

getPriceCacheKey(dex, pair) ==
  Chars(dex) \o <<":">> \o pair.baseMint \o <<":">> \o pair.quoteMint

getPairKey(pair) == pair.baseMint \o <<":">> \o pair.quoteMint

DataManagerInit ==
  [priceCache |-> << >>,
   priceHistory |-> << >>,
   opportunityHistory |-> [opportunities |-> << >>, maxSize |-> OpportunityMaxSize],
   cleanupInterval |-> "active"]

storePriceQuote_keepsFirstTimestamp(dm, quote, t) ==
  LET cacheKey == getPriceCacheKey(quote.dex, quote.pair)
      stamp == IF MapHas(dm.priceCache, cacheKey)
                 THEN MapGet(dm.priceCache, cacheKey).timestamp ELSE t
      historyKey == getPairKey(quote.pair)
      prior == IF MapHas(dm.priceHistory, historyKey)
                 THEN MapGet(dm.priceHistory, historyKey)
                 ELSE [prices |-> << >>, maxSize |-> maxHistorySize]
      pushed == Append(prior.prices, quote)
  IN [dm EXCEPT
        !.priceCache = MapSet(@, cacheKey, [data |-> quote, timestamp |-> stamp, ttl |-> cacheTTL]),
        !.priceHistory = MapSet(@, historyKey,
            [prior EXCEPT !.prices = IF Len(pushed) > prior.maxSize
                                       THEN SliceLast(pushed, prior.maxSize) ELSE pushed])]

storePriceQuote(dm, quote, t) ==
  LET cacheKey == getPriceCacheKey(quote.dex, quote.pair)
      historyKey == getPairKey(quote.pair)
      prior == IF MapHas(dm.priceHistory, historyKey)
                 THEN MapGet(dm.priceHistory, historyKey)
                 ELSE [prices |-> << >>, maxSize |-> maxHistorySize]
      pushed == Append(prior.prices, quote)
  IN [dm EXCEPT
        !.priceCache = MapSet(@, cacheKey, [data |-> quote, timestamp |-> t, ttl |-> cacheTTL]),
        !.priceHistory = MapSet(@, historyKey,
            [prior EXCEPT !.prices = IF Len(pushed) > prior.maxSize
                                       THEN SliceLast(pushed, prior.maxSize) ELSE pushed])]

\* getLatestPrice: the pair <<value returned, DataManager afterwards>>
getLatestPrice_keepsExpired(dm, dex, pair, t) ==
  LET cacheKey == getPriceCacheKey(dex, pair) IN
  IF ~MapHas(dm.priceCache, cacheKey)
    THEN [value |-> Null, dm |-> dm]
    ELSE LET entry == MapGet(dm.priceCache, cacheKey) IN
         IF t - entry.timestamp > entry.ttl
           THEN [value |-> Null, dm |-> dm]
           ELSE [value |-> entry.data, dm |-> dm]

getLatestPrice(dm, dex, pair, t) ==
  LET cacheKey == getPriceCacheKey(dex, pair) IN
  IF ~MapHas(dm.priceCache, cacheKey)
    THEN [value |-> Null, dm |-> dm]
    ELSE LET entry == MapGet(dm.priceCache, cacheKey) IN
         IF t - entry.timestamp > entry.ttl
           THEN [value |-> Null,
                 dm |-> [dm EXCEPT !.priceCache = MapDelete(@, cacheKey)]]
           ELSE [value |-> entry.data, dm |-> dm]

\* priceCache.forEach over the first n entries, filling the result map by venue name
RECURSIVE allLatestUpTo(_, _, _, _)
allLatestUpTo(cache, pairKey, t, n) ==
  IF n = 0 THEN << >>
  ELSE LET prices == allLatestUpTo(cache, pairKey, t, n - 1)
           entry == cache[n].v
       IN IF includes(cache[n].k, pairKey) /\ t - entry.timestamp <= entry.ttl
            THEN MapSet(prices, entry.data.dex, entry.data)
            ELSE prices

getAllLatestPrices(dm, pair, t) ==
  allLatestUpTo(dm.priceCache, getPairKey(pair), t, Len(dm.priceCache))

\* getPriceHistory(pair, limit?): limit is << >> when the argument is omitted and
\* <<n>> when it is the number n; `limit ? ... : ...` takes 0 as omitted
getPriceHistory(dm, pair, limit) ==
  IF ~MapHas(dm.priceHistory, getPairKey(pair)) THEN << >>
  ELSE Only({ IF limit # << >> /\ limit[1] # 0 THEN SliceLast(prices, limit[1]) ELSE prices :
              prices \in {MapGet(dm.priceHistory, getPairKey(pair)).prices} })

MaxAge == 24 * 60 * 60 * 1000

\* cleanup deleting a cache entry as soon as its age reaches the TTL
cleanup_expiresAtTTL(dm, t) ==
  [dm EXCEPT
     !.priceCache = SelectSeq(@, LAMBDA e : ~(t - e.v.timestamp >= e.v.ttl)),
     !.priceHistory =
        [i \in 1..Len(@) |->
           [k |-> @[i].k,
            v |-> [@[i].v EXCEPT
                     !.prices = SelectSeq(@, LAMBDA q : q.timestamp >= t - MaxAge)]]],
     !.opportunityHistory.opportunities =
        SelectSeq(@, LAMBDA o : o.timestamp >= t - MaxAge)]

cleanup(dm, t) ==
  [dm EXCEPT
     !.priceCache = SelectSeq(@, LAMBDA e : ~(t - e.v.timestamp > e.v.ttl)),
     !.priceHistory =
        [i \in 1..Len(@) |->
           [k |-> @[i].k,
            v |-> [@[i].v EXCEPT
                     !.prices = SelectSeq(@, LAMBDA q : q.timestamp >= t - MaxAge)]]],
     !.opportunityHistory.opportunities =
        SelectSeq(@, LAMBDA o : o.timestamp >= t - MaxAge)]

\* the handle is never reset, so the guard on it always passes: clearInterval runs
shutdown(dm) == [dm EXCEPT !.cleanupInterval = "cleared"]

-----------------------------------------------------------------------------
(* ArbitrageDetector.                                                      *)
(* Fixed point: quote prices and liquidity in dollars; slippage in 1/1000  *)
(* of a percent; effective prices in 1e-5 dollars; money in 1e-4 dollars;  *)
(* percentages in 1e-4 percent; confidence in millionths.  Divisions round *)
(* down.                                                                   *)

profitThresholdPercent == 2000

tradeSizeUsdc == 100

SOLANA_FEE_LAMPORTS == 5000

Cooldown == 30000

LedgerWindow == 300000

ConfidenceThreshold == 600000

TimezoneOffsetHours == 0

Min(a, b) == IF a <= b THEN a ELSE b

Max(a, b) == IF a >= b THEN a ELSE b

\* new Date().getHours()
getHours(t) == ((t \div 3600000) + TimezoneOffsetHours) % 24

ArbitrageDetectorInit ==
  [profitThreshold |-> profitThresholdPercent,
   tradeSize |-> tradeSizeUsdc,
   recentOpportunities |-> << >>,
   uuid |-> 0]

\* calculateSlippage with the sign reversed
calculateSlippage_negated(det, quote) ==
  LET T == det.tradeSize
      L == quote.liquidity
      baseSlippage ==
        IF L > 0 /\ T * 1000 <= L THEN 10
        ELSE IF L > 0 /\ T * 200 <= L THEN 50
        ELSE IF L > 0 /\ T * 100 <= L THEN 100
        ELSE IF L > 0 /\ T * 20 <= L THEN 300
        ELSE IF L > 0 THEN Min(2000, (T * 10000) \div L)
        ELSE 2000
  IN 0 - (baseSlippage * 12) \div 10

\* percent slippage, in 1/1000 percent
calculateSlippage(det, quote) ==
  LET T == det.tradeSize
      L == quote.liquidity
      baseSlippage ==
        IF L > 0 /\ T * 1000 <= L THEN 10
        ELSE IF L > 0 /\ T * 200 <= L THEN 50
        ELSE IF L > 0 /\ T * 100 <= L THEN 100
        ELSE IF L > 0 /\ T * 20 <= L THEN 300
        ELSE IF L > 0 THEN Min(2000, (T * 10000) \div L)
        ELSE 2000
  IN (baseSlippage * 12) \div 10

getEffectiveBuyPrice(det, quote) ==
  LET basePrice == IF quote.ask # 0 THEN quote.ask ELSE quote.price
  IN basePrice * (100000 + calculateSlippage(det, quote))

getEffectiveSellPrice(det, quote) ==
  LET basePrice == IF quote.bid # 0 THEN quote.bid ELSE quote.price
  IN basePrice * (100000 - calculateSlippage(det, quote))

\* tenths
getNetworkCongestionMultiplier(t) ==
  LET hour == getHours(t) IN
  IF hour >= 13 /\ hour <= 21 THEN 20
  ELSE IF (hour >= 8 /\ hour <= 13) \/ (hour >= 21 /\ hour <= 24) THEN 15
  ELSE 10

\* tenths
getMarketVolatilityMultiplier(t) ==
  LET hour == getHours(t) IN
  IF (hour >= 13 /\ hour <= 15) \/ (hour >= 20 /\ hour <= 22) THEN 30
  ELSE IF hour >= 8 /\ hour <= 20 THEN 20
  ELSE 10

calculateSolanaFees == (SOLANA_FEE_LAMPORTS * 4 * 150) \div 100000

calculateDexFees(tradeSize) == tradeSize * 26 * 2

\* calculatePriorityFees counting six transactions
calculatePriorityFees_sixTransactions(t) ==
  (10 * 25 * getNetworkCongestionMultiplier(t) * 6 * 150) \div 100

calculatePriorityFees(t) == (10 * 25 * getNetworkCongestionMultiplier(t) * 4 * 150) \div 100

calculateRentFees == 2 * 20 * 150

calculateWrapperFees(pair, tradeSize) ==
  IF pair.baseToken = "SOL" \/ pair.quoteToken = "SOL" THEN tradeSize * 1 ELSE 0

calculateFailedTransactionCosts == (15 * 2 * 20 * 150) \div 100

calculateExecutionTimingBuffer(tradeSize, t) ==
  tradeSize * getMarketVolatilityMultiplier(t)

estimateTransactionFees(pair, tradeSize, t) ==
  calculateSolanaFees + calculateDexFees(tradeSize) + calculatePriorityFees(t)
    + calculateRentFees + calculateWrapperFees(pair, tradeSize)
    + calculateFailedTransactionCosts + calculateExecutionTimingBuffer(tradeSize, t)

\* x * (pct / 100)
Scale(x, pct) == (x * pct) \div 100

\* hundredths
getDexReliabilityScore(buyDex, sellDex) ==
  LET score(d) == CASE d = "Raydium" -> 95 [] d = "Orca" -> 93 [] d = "Serum" -> 90
                    [] OTHER -> 80
  IN (score(buyDex) + score(sellDex)) \div 2

\* ten-thousandths
calculateMevResistance(tradeSize, totalSlippage, t) ==
  LET bySize == IF tradeSize > 10000 THEN 7000 ELSE IF tradeSize > 1000 THEN 8500 ELSE 10000
      bySlippage == IF totalSlippage > 1000 THEN Scale(bySize, 60)
                    ELSE IF totalSlippage > 500 THEN Scale(bySize, 80) ELSE bySize
      hour == getHours(t)
      byHour == IF hour >= 13 /\ hour <= 21 THEN Scale(bySlippage, 85) ELSE bySlippage
  IN Max(3000, byHour)

\* ten-thousandths
calculateExecutionProbability(buyQuote, sellQuote, t) ==
  LET byCongestion == IF getNetworkCongestionMultiplier(t) > 15 THEN 8000 ELSE 10000
      ageSum == (t - buyQuote.timestamp) + (t - sellQuote.timestamp)
      byAge == IF ageSum > 2 * 10000 THEN Scale(byCongestion, 70)
               ELSE IF ageSum > 2 * 5000 THEN Scale(byCongestion, 90) ELSE byCongestion
      byVolatility == IF getMarketVolatilityMultiplier(t) > 20 THEN Scale(byAge, 75) ELSE byAge
  IN Max(4000, byVolatility)

\* calculateConfidence without the final clamp
calculateConfidence_unclamped(det, buyQuote, sellQuote, tradeSize, t) ==
  LET buyAge == t - buyQuote.timestamp
      sellAge == t - sellQuote.timestamp
      c1 == IF buyAge > 15000 \/ sellAge > 15000 THEN 500000
            ELSE IF buyAge > 5000 \/ sellAge > 5000 THEN 800000 ELSE 1000000
      minLiquidity == tradeSize * 3
      worst == Min(buyQuote.liquidity, sellQuote.liquidity)
      c2 == IF buyQuote.liquidity < minLiquidity \/ sellQuote.liquidity < minLiquidity
              THEN (c1 \div 1000) * Max(300, (worst * 1000) \div minLiquidity) ELSE c1
      totalSlippage == calculateSlippage(det, buyQuote) + calculateSlippage(det, sellQuote)
      c3 == IF totalSlippage > 1000 THEN Scale(c2, 60)
            ELSE IF totalSlippage > 500 THEN Scale(c2, 80) ELSE c2
      hasBook == buyQuote.ask # 0 /\ buyQuote.bid # 0 /\ sellQuote.ask # 0 /\ sellQuote.bid # 0
      \* (ask - bid) / price * 100 against 0.1 and 0.5
      tight(q) == (q.ask - q.bid) * 1000 < q.price
      wide(q) == (q.ask - q.bid) * 200 > q.price
      c4 == IF hasBook
              THEN IF tight(buyQuote) /\ tight(sellQuote) THEN Scale(c3, 115)
                   ELSE IF wide(buyQuote) \/ wide(sellQuote) THEN Scale(c3, 85) ELSE c3
              ELSE Scale(c3, 90)
      c5 == Scale(c4, getDexReliabilityScore(buyQuote.dex, sellQuote.dex))
      c6 == Scale(c5, 95)
      c7 == ((c6 \div 10) * calculateMevResistance(tradeSize, totalSlippage, t)) \div 1000
      c8 == ((c7 \div 10) * calculateExecutionProbability(buyQuote, sellQuote, t)) \div 1000
  IN c8

\* millionths
calculateConfidence(det, buyQuote, sellQuote, tradeSize, t) ==
  LET buyAge == t - buyQuote.timestamp
      sellAge == t - sellQuote.timestamp
      c1 == IF buyAge > 15000 \/ sellAge > 15000 THEN 500000
            ELSE IF buyAge > 5000 \/ sellAge > 5000 THEN 800000 ELSE 1000000
      minLiquidity == tradeSize * 3
      worst == Min(buyQuote.liquidity, sellQuote.liquidity)
      c2 == IF buyQuote.liquidity < minLiquidity \/ sellQuote.liquidity < minLiquidity
              THEN (c1 \div 1000) * Max(300, (worst * 1000) \div minLiquidity) ELSE c1
      totalSlippage == calculateSlippage(det, buyQuote) + calculateSlippage(det, sellQuote)
      c3 == IF totalSlippage > 1000 THEN Scale(c2, 60)
            ELSE IF totalSlippage > 500 THEN Scale(c2, 80) ELSE c2
      hasBook == buyQuote.ask # 0 /\ buyQuote.bid # 0 /\ sellQuote.ask # 0 /\ sellQuote.bid # 0
      \* (ask - bid) / price * 100 against 0.1 and 0.5
      tight(q) == (q.ask - q.bid) * 1000 < q.price
      wide(q) == (q.ask - q.bid) * 200 > q.price
      c4 == IF hasBook
              THEN IF tight(buyQuote) /\ tight(sellQuote) THEN Scale(c3, 115)
                   ELSE IF wide(buyQuote) \/ wide(sellQuote) THEN Scale(c3, 85) ELSE c3
              ELSE Scale(c3, 90)
      c5 == Scale(c4, getDexReliabilityScore(buyQuote.dex, sellQuote.dex))
      c6 == Scale(c5, 95)
      c7 == ((c6 \div 10) * calculateMevResistance(tradeSize, totalSlippage, t)) \div 1000
      c8 == ((c7 \div 10) * calculateExecutionProbability(buyQuote, sellQuote, t)) \div 1000
  IN Max(100000, Min(1000000, c8))

\* a quote on which the arithmetic of calculateArbitrage throws (a liquidity that is not
\* a number, such as a BigInt): the liquidity field holds Throws
Malformed(quote) == quote.liquidity = 0 - 1

\* calculateArbitrage comparing the quoted prices instead of the effective ones
calculateArbitrage_comparesQuotes(det, pair, buyDex, sellDex, buyQuote, sellQuote, id, t) ==
  LET buyPrice == getEffectiveBuyPrice(det, buyQuote)
      sellPrice == getEffectiveSellPrice(det, sellQuote)
      spread == sellPrice - buyPrice
      tradeSize == det.tradeSize
      \* (tradeSize / buyPrice) * spread, by long division to stay within 32 bits
      buyMilli == buyPrice \div 100
      perDollar == (spread * 100) \div buyMilli
      rest == (spread * 100) % buyMilli
      hundreds == ((tradeSize \div 100) * rest) \div buyMilli
      carry == ((tradeSize \div 100) * rest) % buyMilli
      grossProfit == tradeSize * perDollar + 100 * hundreds
                       + (100 * carry + (tradeSize % 100) * rest) \div buyMilli
      estimatedFees == estimateTransactionFees(pair, tradeSize, t)
      netProfit == grossProfit - estimatedFees
  IN IF Malformed(buyQuote) \/ Malformed(sellQuote) THEN Null
     ELSE IF sellQuote.price <= buyQuote.price THEN Null
     ELSE [id |-> id, pair |-> pair, buyDex |-> buyDex, sellDex |-> sellDex,
           buyPrice |-> buyPrice, sellPrice |-> sellPrice, spread |-> spread,
           grossProfit |-> grossProfit, estimatedFees |-> estimatedFees,
           netProfit |-> netProfit,
           netProfitPercent |-> (netProfit * 100) \div tradeSize,
           tradeSize |-> tradeSize, timestamp |-> t,
           confidence |-> calculateConfidence(det, buyQuote, sellQuote, tradeSize, t)]

\* calculateArbitrage: the opportunity for one direction, or Null; the catch block
\* turns an error into Null
calculateArbitrage(det, pair, buyDex, sellDex, buyQuote, sellQuote, id, t) ==
  LET buyPrice == getEffectiveBuyPrice(det, buyQuote)
      sellPrice == getEffectiveSellPrice(det, sellQuote)
      spread == sellPrice - buyPrice
      tradeSize == det.tradeSize
      \* (tradeSize / buyPrice) * spread, by long division to stay within 32 bits
      buyMilli == buyPrice \div 100
      perDollar == (spread * 100) \div buyMilli
      rest == (spread * 100) % buyMilli
      hundreds == ((tradeSize \div 100) * rest) \div buyMilli
      carry == ((tradeSize \div 100) * rest) % buyMilli
      grossProfit == tradeSize * perDollar + 100 * hundreds
                       + (100 * carry + (tradeSize % 100) * rest) \div buyMilli
      estimatedFees == estimateTransactionFees(pair, tradeSize, t)
      netProfit == grossProfit - estimatedFees
  IN IF Malformed(buyQuote) \/ Malformed(sellQuote) THEN Null
     ELSE IF sellPrice <= buyPrice THEN Null
     ELSE [id |-> id, pair |-> pair, buyDex |-> buyDex, sellDex |-> sellDex,
           buyPrice |-> buyPrice, sellPrice |-> sellPrice, spread |-> spread,
           grossProfit |-> grossProfit, estimatedFees |-> estimatedFees,
           netProfit |-> netProfit,
           netProfitPercent |-> (netProfit * 100) \div tradeSize,
           tradeSize |-> tradeSize, timestamp |-> t,
           confidence |-> calculateConfidence(det, buyQuote, sellQuote, tradeSize, t)]

opportunityKey(opportunity) ==
  Chars(opportunity.pair.baseToken) \o <<"-">> \o Chars(opportunity.pair.quoteToken)
    \o <<"-">> \o Chars(opportunity.buyDex) \o <<"-">> \o Chars(opportunity.sellDex)

cleanupRecentOpportunities(recent, t) ==
  SelectSeq(recent, LAMBDA e : ~(e.v < t - LedgerWindow))

\* shouldReportOpportunity writing the ledger before the threshold tests
shouldReportOpportunity_recordsFirst(det, opportunity, t) ==
  LET key == opportunityKey(opportunity)
      lastReported == IF MapHas(det.recentOpportunities, key)
                        THEN MapGet(det.recentOpportunities, key) ELSE 0
      recorded == [det EXCEPT !.recentOpportunities =
                     cleanupRecentOpportunities(MapSet(@, key, t), t)]
  IN IF t - lastReported < Cooldown
       THEN [report |-> FALSE, det |-> det]
     ELSE IF opportunity.netProfitPercent < det.profitThreshold
       THEN [report |-> FALSE, det |-> recorded]
     ELSE IF opportunity.confidence < ConfidenceThreshold
       THEN [report |-> FALSE, det |-> recorded]
     ELSE [report |-> TRUE, det |-> recorded]

\* shouldReportOpportunity: <<verdict, detector afterwards>>
shouldReportOpportunity(det, opportunity, t) ==
  LET key == opportunityKey(opportunity)
      lastReported == IF MapHas(det.recentOpportunities, key)
                        THEN MapGet(det.recentOpportunities, key) ELSE 0
  IN IF opportunity.netProfitPercent < det.profitThreshold
       THEN [report |-> FALSE, det |-> det]
     ELSE IF opportunity.confidence < ConfidenceThreshold
       THEN [report |-> FALSE, det |-> det]
     ELSE IF t - lastReported < Cooldown
       THEN [report |-> FALSE, det |-> det]
     ELSE [report |-> TRUE,
           det |-> [det EXCEPT !.recentOpportunities =
                      cleanupRecentOpportunities(MapSet(@, key, t), t)]]

\* updateConfig: the fields present in newConfig replace the detector's
updateConfig(det, newConfig) ==
  [det EXCEPT
     !.profitThreshold = IF "profitThreshold" \in DOMAIN newConfig
                           THEN newConfig.profitThreshold ELSE @,
     !.tradeSize = IF "tradeSize" \in DOMAIN newConfig THEN newConfig.tradeSize ELSE @]

\* directions visiting each unordered pair in one direction only
RECURSIVE directions_oneWay(_, _, _)
directions_oneWay(dexNames, i, j) ==
  IF i > Len(dexNames) THEN << >>
  ELSE IF j > Len(dexNames) THEN directions_oneWay(dexNames, i + 1, i + 2)
  ELSE << <<dexNames[i], dexNames[j]>> >> \o directions_oneWay(dexNames, i, j + 1)

\* the directed venue pairs in the order the nested loops visit them
RECURSIVE directions(_, _, _)
directions(dexNames, i, j) ==
  IF i > Len(dexNames) THEN << >>
  ELSE IF j > Len(dexNames) THEN directions(dexNames, i + 1, i + 2)
  ELSE << <<dexNames[i], dexNames[j]>>, <<dexNames[j], dexNames[i]>> >>
         \o directions(dexNames, i, j + 1)

\* candidatesUpTo where an error in one direction ends the loop
RECURSIVE candidatesUpTo_abortsOnError(_, _, _, _, _, _)
candidatesUpTo_abortsOnError(det, pair, priceQuotes, dirs, t, n) ==
  IF n = 0 THEN << >>
  ELSE IF \E m \in 1..n : Malformed(MapGet(priceQuotes, dirs[m][1]))
                           \/ Malformed(MapGet(priceQuotes, dirs[m][2]))
    THEN candidatesUpTo_abortsOnError(det, pair, priceQuotes, dirs, t, n - 1)
  ELSE Only({ Only({ IF opp = Null THEN before ELSE Append(before, opp) :
                     opp \in {calculateArbitrage(det, pair, dirs[n][1], dirs[n][2],
                                                 MapGet(priceQuotes, dirs[n][1]),
                                                 MapGet(priceQuotes, dirs[n][2]),
                                                 det.uuid + Len(before) + 1, t)} }) :
              before \in {candidatesUpTo_abortsOnError(det, pair, priceQuotes, dirs, t,
                                                       n - 1)} })

\* the candidates of the first n directions, ids drawn in order
RECURSIVE candidatesUpTo(_, _, _, _, _, _)
candidatesUpTo(det, pair, priceQuotes, dirs, t, n) ==
  IF n = 0 THEN << >>
  ELSE Only({ Only({ IF opp = Null THEN before ELSE Append(before, opp) :
                     opp \in {calculateArbitrage(det, pair, dirs[n][1], dirs[n][2],
                                                 MapGet(priceQuotes, dirs[n][1]),
                                                 MapGet(priceQuotes, dirs[n][2]),
                                                 det.uuid + Len(before) + 1, t)} }) :
              before \in {candidatesUpTo(det, pair, priceQuotes, dirs, t, n - 1)} })

\* opportunities.filter(shouldReportOpportunity) over the first n candidates
RECURSIVE filterUpTo(_, _, _, _)
filterUpTo(det, candidates, t, n) ==
  IF n = 0 THEN [det |-> det, reported |-> << >>, suppressed |-> << >>]
  ELSE Only({ Only({ IF verdict.report
                       THEN [det |-> verdict.det,
                             reported |-> Append(before.reported, candidates[n]),
                             suppressed |-> before.suppressed]
                       ELSE [det |-> verdict.det,
                             reported |-> before.reported,
                             suppressed |-> Append(before.suppressed, candidates[n])] :
                     verdict \in {shouldReportOpportunity(before.det, candidates[n], t)} }) :
              before \in {filterUpTo(det, candidates, t, n - 1)} })

\* detectOpportunities: detector afterwards, the opportunities returned, and the
\* candidates the filter dropped
detectOpportunities(det, pair, priceQuotes, t) ==
  Only({ Only({ filterUpTo([det EXCEPT !.uuid = @ + Len(candidates)], candidates, t,
                           Len(candidates)) :
                candidates \in {candidatesUpTo(det, pair, priceQuotes, dirs, t, Len(dirs))} }) :
         dirs \in {directions(MapKeys(priceQuotes), 1, 2)} })

-----------------------------------------------------------------------------
(* OpportunityTracker and the opportunity history of the DataManager *)

OpportunityTrackerInit == [opportunities |-> << >>]

TrackerMaxSize == 10000

trackOpportunity_dropsReport(tracker, opportunity, reported, reason, t) ==
  tracker

trackOpportunity(tracker, opportunity, reported, reason, t) ==
  LET report == [timestamp |-> t, opportunity |-> opportunity,
                 reported |-> reported, reason |-> reason]
      pushed == Append(tracker.opportunities, report)
  IN [tracker EXCEPT !.opportunities =
        IF Len(pushed) > TrackerMaxSize THEN SliceLast(pushed, TrackerMaxSize) ELSE pushed]

storeOpportunity_keepsOldest(dm, opportunity) ==
  LET pushed == Append(dm.opportunityHistory.opportunities, opportunity)
  IN [dm EXCEPT !.opportunityHistory.opportunities =
        IF Len(pushed) > dm.opportunityHistory.maxSize
          THEN SubSeq(pushed, 1, dm.opportunityHistory.maxSize) ELSE pushed]

storeOpportunity(dm, opportunity) ==
  LET pushed == Append(dm.opportunityHistory.opportunities, opportunity)
  IN [dm EXCEPT !.opportunityHistory.opportunities =
        IF Len(pushed) > dm.opportunityHistory.maxSize
          THEN SliceLast(pushed, dm.opportunityHistory.maxSize) ELSE pushed]

-----------------------------------------------------------------------------
(* Timers: setInterval appends a live timer and returns its index as the   *)
(* handle; clearInterval ends it.  A cleared or overwritten handle does    *)
(* not end any other timer.                                                *)

setInterval(tm, kind, dex, pair) ==
  Append(tm, [kind |-> kind, dex |-> dex, pair |-> pair, live |-> TRUE])

clearInterval(tm, handle) == [tm EXCEPT ![handle].live = FALSE]

LiveTimers(tm, kind) == { i \in 1..Len(tm) : tm[i].live /\ tm[i].kind = kind }

-----------------------------------------------------------------------------
(* Venue adapters (RaydiumDEX, OrcaDEX) and the DEXManager.  A venues      *)
(* value V is [dexes, timers]: the adapters by name and the timer table.   *)

\* the order in which initializeDEXes fills the map
DEXOrder == <<"Raydium", "Orca">>

DEXNames == { DEXOrder[i] : i \in 1..Len(DEXOrder) }

DEXInit == [isEnabled |-> TRUE, subscriptions |-> << >>]

DEXManagerInit == [name \in DEXNames |-> DEXInit]

subscriptionKey(pair) == pair.baseMint \o <<"-">> \o pair.quoteMint

intervalKey(pair) == subscriptionKey(pair) \o <<"_interval">>

\* fetchPrice: the quote an enabled adapter returns at time t when the venue's price is p
fetchPrice(name, pair, p, t) ==
  [dex |-> name, pair |-> pair, price |-> p, liquidity |-> 1000000,
   timestamp |-> t, bid |-> 0, ask |-> 0]

subscribeToUpdates(V, name, pair) ==
  IF ~V.dexes[name].isEnabled THEN V
  ELSE LET handle == Len(V.timers) + 1 IN
       [dexes |-> [V.dexes EXCEPT ![name].subscriptions =
                     MapSet(MapSet(@, subscriptionKey(pair), [callback |-> name]),
                            intervalKey(pair), [handle |-> handle])],
        timers |-> setInterval(V.timers, "push", name, pair)]

\* subscriptions.clear() when the pair has no interval
unsubscribe_clearsAll(V, name, pair) ==
  LET subs == V.dexes[name].subscriptions IN
  IF MapHas(subs, intervalKey(pair))
    THEN [dexes |-> [V.dexes EXCEPT ![name].subscriptions =
                       MapDelete(MapDelete(@, intervalKey(pair)), subscriptionKey(pair))],
          timers |-> clearInterval(V.timers, MapGet(subs, intervalKey(pair)).handle)]
    ELSE [V EXCEPT !.dexes[name].subscriptions = << >>]

unsubscribe(V, name, pair) ==
  LET subs == V.dexes[name].subscriptions IN
  IF MapHas(subs, intervalKey(pair))
    THEN [dexes |-> [V.dexes EXCEPT ![name].subscriptions =
                       MapDelete(MapDelete(@, intervalKey(pair)), subscriptionKey(pair))],
          timers |-> clearInterval(V.timers, MapGet(subs, intervalKey(pair)).handle)]
    ELSE [V EXCEPT !.dexes[name].subscriptions = MapDelete(@, subscriptionKey(pair))]

\* subscribeToAllUpdates over the first n adapters
RECURSIVE subscribeUpTo(_, _, _)
subscribeUpTo(V, pair, n) ==
  IF n = 0 THEN V
  ELSE LET before == subscribeUpTo(V, pair, n - 1) IN
       IF before.dexes[DEXOrder[n]].isEnabled
         THEN subscribeToUpdates(before, DEXOrder[n], pair) ELSE before

subscribeToAllUpdates(V, pair) == subscribeUpTo(V, pair, Len(DEXOrder))

RECURSIVE unsubscribeUpTo(_, _, _)
unsubscribeUpTo(V, pair, n) ==
  IF n = 0 THEN V
  ELSE LET before == unsubscribeUpTo(V, pair, n - 1) IN
       IF before.dexes[DEXOrder[n]].isEnabled
         THEN unsubscribe(before, DEXOrder[n], pair) ELSE before

unsubscribeFromAll(V, pair) == unsubscribeUpTo(V, pair, Len(DEXOrder))

\* what an adapter's fetchPrice does in place of returning a quote at a price:
\* it resolves to null, or it rejects
ReturnsNull == 0

Throws == 0 - 1

initializeAll_ignoresFailure(dexes, failOf) ==
  [name \in DEXNames |-> [dexes[name] EXCEPT !.isEnabled = TRUE]]

\* initializeAll: an adapter whose initialize() rejects (failOf) is disabled, one whose
\* initialize() resolves has set itself enabled
initializeAll(dexes, failOf) ==
  [name \in DEXNames |-> [dexes[name] EXCEPT !.isEnabled = ~failOf[name]]]

getHealthStatus(dexes) == [name \in DEXNames |-> dexes[name].isEnabled]

\* fetchAllPrices over the first n adapters: the map of quotes, by adapter name, where
\* priceOf is each venue's price, or ReturnsNull or Throws
RECURSIVE fetchUpTo(_, _, _, _, _)
fetchUpTo(dexes, pair, priceOf, t, n) ==
  IF n = 0 THEN << >>
  ELSE LET before == fetchUpTo(dexes, pair, priceOf, t, n - 1)
           name == DEXOrder[n]
       IN IF ~dexes[name].isEnabled THEN before
          ELSE IF priceOf[name] = Throws THEN before
          ELSE IF priceOf[name] = ReturnsNull THEN before
          ELSE MapSet(before, name, fetchPrice(name, pair, priceOf[name], t))

\* Promise.all in place of try/catch and Promise.allSettled
fetchAllPrices_failsTogether(dexes, pair, priceOf, t) ==
  IF \E name \in DEXNames : dexes[name].isEnabled /\ priceOf[name] = Throws
    THEN << >>
    ELSE fetchUpTo(dexes, pair, priceOf, t, Len(DEXOrder))

fetchAllPrices(dexes, pair, priceOf, t) == fetchUpTo(dexes, pair, priceOf, t, Len(DEXOrder))

-----------------------------------------------------------------------------
(* ConnectionManager.  reconnectDelay is kept in tenths of a millisecond.  *)

wsReconnectDelayMs == 5000

maxReconnectAttempts == 10

MaxReconnectDelayMs == 30000

ConnectionManagerInit ==
  [websocket |-> "CONNECTING",
   reconnectAttempts |-> 0,
   reconnectDelay |-> wsReconnectDelayMs * 10,
   isReconnecting |-> FALSE,
   subscriptions |-> {},
   reconnectTimers |-> 0,
   sockets |-> 1]

\* new WebSocket(...): the manager's socket is replaced by one that is connecting
setupWebSocket(c) == [c EXCEPT !.websocket = "CONNECTING", !.sockets = @ + 1]

\* the backoff without its upper limit
handleWebSocketError_uncapped(c) ==
  IF ~c.isReconnecting /\ c.reconnectAttempts < maxReconnectAttempts
    THEN [c EXCEPT !.isReconnecting = TRUE,
                   !.reconnectAttempts = @ + 1,
                   !.reconnectTimers = @ + 1,
                   !.reconnectDelay = (@ * 15) \div 10]
    ELSE c

handleWebSocketError(c) ==
  IF ~c.isReconnecting /\ c.reconnectAttempts < maxReconnectAttempts
    THEN [c EXCEPT !.isReconnecting = TRUE,
                   !.reconnectAttempts = @ + 1,
                   !.reconnectTimers = @ + 1,
                   !.reconnectDelay = Min((@ * 15) \div 10, MaxReconnectDelayMs * 10)]
    ELSE c

handleWebSocketClose(c) == IF ~c.isReconnecting THEN handleWebSocketError(c) ELSE c

subscribeToSlots(c) ==
  IF c.websocket # "OPEN" THEN c
  ELSE [c EXCEPT !.subscriptions = @ \cup {"slotNotification"}]

\* close: the socket object is kept; an open or connecting socket starts closing
close(c) ==
  [c EXCEPT !.websocket = IF @ \in {"OPEN", "CONNECTING"} THEN "CLOSING" ELSE @,
            !.subscriptions = {}]

-----------------------------------------------------------------------------
(* RealTimeMonitor.  A pipeline value P is [dm, det, tracker, returned,    *)
(* suppressed]: the store, the detector and the tracker as a handler       *)
(* leaves them, with the opportunities detectOpportunities returned and    *)
(* the candidates it filtered out.                                         *)

RealTimeMonitorInit ==
  [isRunning |-> FALSE,
   monitoredPairs |-> << >>,
   slotSubscription |-> FALSE,
   healthCheckInterval |-> 0,
   priceUpdateInterval |-> 0,
   summaryDisplayInterval |-> 0]

isPairMonitored(m, pair) ==
  \E i \in 1..Len(m.monitoredPairs) : SamePair(m.monitoredPairs[i], pair)

\* opportunities.forEach(storeOpportunity; trackOpportunity) over the first n
RECURSIVE processUpTo(_, _, _, _, _)
processUpTo(P, opportunities, reason, t, n) ==
  IF n = 0 THEN P
  ELSE [processUpTo(P, opportunities, reason, t, n - 1) EXCEPT
          !.dm = storeOpportunity(@, opportunities[n]),
          !.tracker = trackOpportunity(@, opportunities[n], TRUE, reason, t)]

\* the detection step shared by the two handlers: each returned opportunity is stored
\* and tracked, in order
recordOpportunities(P, found, reason, t) ==
  [processUpTo([P EXCEPT !.det = found.det], found.reported, reason, t, Len(found.reported))
     EXCEPT !.returned = @ \o found.reported,
            !.suppressed = @ \o found.suppressed]

handlePriceUpdate(P, dexName, quote, t) ==
  Only({ Only({ IF Len(allPrices) < 2 THEN [P EXCEPT !.dm = stored]
                ELSE Only({ recordOpportunities([P EXCEPT !.dm = stored,
                                                           !.inputs = Append(@, allPrices)],
                                                 found, "Real-time detection", t) :
                            found \in {detectOpportunities(P.det, quote.pair, allPrices, t)} }) :
                allPrices \in {getAllLatestPrices(stored, quote.pair, t)} }) :
         stored \in {storePriceQuote(P.dm, quote, t)} })

\* prices.forEach(storePriceQuote) over the first n quotes
RECURSIVE storeAllUpTo(_, _, _, _)
storeAllUpTo(dm, prices, t, n) ==
  IF n = 0 THEN dm
  ELSE storePriceQuote(storeAllUpTo(dm, prices, t, n - 1), prices[n].v, t)

\* the body of refreshAllPrices for one pair
refreshPair(P, dexes, pair, priceOf, t) ==
  Only({ Only({ IF Len(prices) >= 2
                  THEN Only({ recordOpportunities([P EXCEPT !.dm = stored,
                                                             !.inputs = Append(@, prices)],
                                                   found, "Periodic refresh", t) :
                              found \in {detectOpportunities(P.det, pair, prices, t)} })
                  ELSE [P EXCEPT !.dm = stored] :
                stored \in {storeAllUpTo(P.dm, prices, t, Len(prices))} }) :
         prices \in {fetchAllPrices(dexes, pair, priceOf, t)} })

\* refreshAllPrices over the first n monitored pairs
RECURSIVE refreshAllPrices(_, _, _, _, _, _)
refreshAllPrices(P, dexes, pairs, priceOf, t, n) ==
  IF n = 0 THEN P
  ELSE Only({ refreshPair(before, dexes, pairs[n], priceOf, t) :
              before \in {refreshAllPrices(P, dexes, pairs, priceOf, t, n - 1)} })

\* monitoredPairs.forEach(setupPairMonitoring) over the first n pairs
RECURSIVE setupPairsUpTo(_, _, _)
setupPairsUpTo(V, pairs, n) ==
  IF n = 0 THEN V
  ELSE subscribeToAllUpdates(setupPairsUpTo(V, pairs, n - 1), pairs[n])

\* monitoredPairs.forEach(unsubscribeFromAll) over the first n pairs
RECURSIVE unsubscribePairsUpTo(_, _, _)
unsubscribePairsUpTo(V, pairs, n) ==
  IF n = 0 THEN V
  ELSE unsubscribeFromAll(unsubscribePairsUpTo(V, pairs, n - 1), pairs[n])

\* if (handle) clearInterval(handle)
clearIfSet(tm, handle) == IF handle # 0 THEN clearInterval(tm, handle) ELSE tm

\* monitoredPairs.splice(findIndex(same mints), 1)
removeFirst(pairs, pair) ==
  LET index == CHOOSE i \in 1..Len(pairs) :
                 /\ SamePair(pairs[i], pair)
                 /\ \A j \in 1..(i - 1) : ~SamePair(pairs[j], pair)
  IN SubSeq(pairs, 1, index - 1) \o SubSeq(pairs, index + 1, Len(pairs))

-----------------------------------------------------------------------------
(* The store on its own: put / latest / allLatest / sweep under a clock *)

StartTime == 100000000

MaxElapsedSeconds == 45

MaxPuts == 3

TickSteps == {15000}

StorePairs == {SOL_USDC, XSOL_USDC}

CaptureLags == {0, 20000}

StoreQuotes(t) ==
  { [dex |-> d, pair |-> p, price |-> 100, liquidity |-> 1000000,
     timestamp |-> t - lag, bid |-> 0, ask |-> 0] :
      d \in DEXNames, p \in StorePairs, lag \in CaptureLags }

StoreKey(dex, pair) == <<dex, pair.baseMint, pair.quoteMint>>

StoreKeys == { StoreKey(d, p) : d \in DEXNames, p \in StorePairs }

Tick ==
  \E d \in TickSteps :
    /\ now + d <= StartTime + MaxElapsedSeconds * 1000
    /\ pendingStarts = << >>
    /\ now' = now + d
    /\ ret' = [op |-> "tick"]
    /\ UNCHANGED <<dataManager, lastPut, nPuts, orchestrator>>

StorePut ==
  \E q \in StoreQuotes(now) :
    /\ nPuts < MaxPuts
    /\ dataManager' = storePriceQuote(dataManager, q, now)
    /\ lastPut' = [lastPut EXCEPT ![StoreKey(q.dex, q.pair)] = [quote |-> q, at |-> now]]
    /\ nPuts' = nPuts + 1
    /\ ret' = [op |-> "put", quote |-> q,
               historyBefore |->
                 IF MapHas(dataManager.priceHistory, getPairKey(q.pair))
                   THEN MapGet(dataManager.priceHistory, getPairKey(q.pair)).prices
                   ELSE << >>]
    /\ UNCHANGED <<now, orchestrator>>

StoreLatest ==
  \E d \in DEXNames, p \in StorePairs :
    LET r == getLatestPrice(dataManager, d, p, now) IN
      /\ dataManager' = r.dm
      /\ ret' = [op |-> "latest", dex |-> d, pair |-> p, value |-> r.value]
      /\ UNCHANGED <<now, lastPut, nPuts, orchestrator>>

StoreAllLatest ==
  \E p \in StorePairs :
    /\ ret' = [op |-> "allLatest", pair |-> p,
               value |-> getAllLatestPrices(dataManager, p, now)]
    /\ UNCHANGED <<now, dataManager, lastPut, nPuts, orchestrator>>

\* the store's cleanupInterval timer fires
StoreSweep ==
  /\ pendingStarts = << >>
  /\ dataManager.cleanupInterval = "active"
  /\ dataManager' = cleanup(dataManager, now)
  /\ ret' = [op |-> "sweep", afterStop |-> stopped]
  /\ UNCHANGED <<now, lastPut, nPuts, orchestrator>>

StoreInit ==
  /\ now = StartTime
  /\ dataManager = DataManagerInit
  /\ ret = [op |-> "init"]
  /\ lastPut = [k \in StoreKeys |-> Null]
  /\ nPuts = 0
  /\ monitor = RealTimeMonitorInit
  /\ dexManager = DEXManagerInit
  /\ timers = << >>
  /\ connectionManager = ConnectionManagerInit
  /\ arbitrageDetector = ArbitrageDetectorInit
  /\ opportunityTracker = OpportunityTrackerInit
  /\ pendingStarts = << >>
  /\ refreshCycle = Null
  /\ stopped = FALSE
  /\ lastCall = "none"
  /\ budget = [calls |-> 0, deliveries |-> 0]

StoreNext == Tick \/ StorePut \/ StoreLatest \/ StoreAllLatest \/ StoreSweep

StoreSpec == StoreInit /\ [][StoreNext]_vars

\* whether the quote last stored under (dex, pair) is still within its TTL at time t
Live(dex, pair, t) ==
  /\ lastPut[StoreKey(dex, pair)] # Null
  /\ t - lastPut[StoreKey(dex, pair)].at <= cacheTTL

\* C7: latest(source, pair) never returns an entry whose age since it was stored
\* exceeds the TTL, sweep or no sweep; the read that finds it expired removes it
\* from the cache; an entry within its TTL is returned.
C7_ExpiredNeverReturned ==
  ret.op = "latest" =>
    /\ ~Live(ret.dex, ret.pair, now) =>
         /\ ret.value = Null
         /\ ~MapHas(dataManager.priceCache, getPriceCacheKey(ret.dex, ret.pair))
    /\ Live(ret.dex, ret.pair, now) => ret.value # Null

\* a read found an entry stored more than TTL ago that no sweep had removed
C7_Witness ==
  /\ ret.op = "latest"
  /\ lastPut[StoreKey(ret.dex, ret.pair)] # Null
  /\ now - lastPut[StoreKey(ret.dex, ret.pair)].at > cacheTTL
  /\ ret.value = Null

\* C8: after put(q1) then put(q2) for one (source, pair), latest returns q2, whatever
\* the order of the capture timestamps, and the TTL runs from the second put.
C8_LastWriteWins ==
  /\ ret.op = "put" =>
       /\ getLatestPrice(dataManager, ret.quote.dex, ret.quote.pair, now).value = ret.quote
       /\ MapGet(dataManager.priceCache,
                 getPriceCacheKey(ret.quote.dex, ret.quote.pair)).timestamp = now
  /\ ret.op = "latest" /\ Live(ret.dex, ret.pair, now) =>
       ret.value = lastPut[StoreKey(ret.dex, ret.pair)].quote

\* a second put, captured earlier than the quote it replaced, was read back after
\* the first put's TTL had run out but within its own
C8_Witness ==
  /\ ret.op = "latest"
  /\ ret.value # Null
  /\ \E i \in 1..Len(dataManager.priceHistory) :
       LET h == dataManager.priceHistory[i].v.prices IN
         /\ Len(h) = 2
         /\ h[1].dex = ret.dex /\ h[2] = ret.value
         /\ SamePair(h[1].pair, ret.pair)
         /\ h[2].timestamp < h[1].timestamp
         /\ now - h[1].timestamp > cacheTTL

\* C9: allLatest(pair) holds only quotes of the requested pair (same base and quote
\* addresses), also when stored pairs have addresses that are prefixes or suffixes
\* of one another.
C9_AllLatestSamePair ==
  ret.op = "allLatest" =>
    \A i \in 1..Len(ret.value) : SamePair(ret.value[i].v.pair, ret.pair)

\* C10: a source is in allLatest(pair) exactly when its entry for the pair exists
\* and is unexpired.
C10_AllLatestExactlyLive ==
  ret.op = "allLatest" =>
    \A d \in DEXNames :
      MapHas(ret.value, d) <=> Live(d, ret.pair, now)

-----------------------------------------------------------------------------
(* The store with its opportunity history one short of capacity: put,      *)
(* recordOpportunity and sweep.  The oldest recorded opportunities are     *)
(* about to pass the sweep's 24 hour cutoff.                               *)

AgedEntries == 1

SweepMargin == 20000

MaxRecords == 2

HistoryFill ==
  [i \in 1..(OpportunityMaxSize - 1) |->
     [id |-> i, pair |-> SOL_USDC,
      timestamp |-> IF i <= AgedEntries THEN StartTime - MaxAge + SweepMargin
                    ELSE StartTime]]

\* the price history of a store that has run for a day: one quote about to leave the
\* horizon
HistoryQuotes ==
  << [k |-> getPairKey(SOL_USDC),
      v |-> [prices |-> << fetchPrice(DEXOrder[1], SOL_USDC, 100,
                                      StartTime - MaxAge + SweepMargin) >>,
             maxSize |-> maxHistorySize]] >>

\* dataManager.storeOpportunity(opportunity) with an opportunity detected now
StoreRecord ==
  /\ budget.deliveries < MaxRecords
  /\ budget' = [budget EXCEPT !.deliveries = @ + 1]
  /\ \E opportunity \in {[id |-> OpportunityMaxSize + budget.deliveries,
                           pair |-> SOL_USDC, timestamp |-> now]} :
        /\ dataManager' = storeOpportunity(dataManager, opportunity)
        /\ ret' = [op |-> "record", opportunity |-> opportunity,
                   historyBefore |-> dataManager.opportunityHistory.opportunities]
  /\ UNCHANGED <<now, lastPut, nPuts, monitor, dexManager, timers, connectionManager,
                 arbitrageDetector, opportunityTracker, pendingStarts, refreshCycle, stopped, lastCall>>

\* dataManager.storePriceQuote(quote) with a quote one venue captured now
HistoryPut ==
  \E q \in { fetchPrice(DEXOrder[1], p, 100, now) : p \in StorePairs } :
    /\ nPuts < MaxPuts
    /\ dataManager' = storePriceQuote(dataManager, q, now)
    /\ lastPut' = [lastPut EXCEPT ![StoreKey(q.dex, q.pair)] = [quote |-> q, at |-> now]]
    /\ nPuts' = nPuts + 1
    /\ ret' = [op |-> "put", quote |-> q,
               historyBefore |->
                 IF MapHas(dataManager.priceHistory, getPairKey(q.pair))
                   THEN MapGet(dataManager.priceHistory, getPairKey(q.pair)).prices
                   ELSE << >>]
    /\ UNCHANGED <<now, orchestrator>>

HistoryInit ==
  /\ now = StartTime
  /\ dataManager = [DataManagerInit EXCEPT !.opportunityHistory.opportunities = HistoryFill,
                                           !.priceHistory = HistoryQuotes]
  /\ ret = [op |-> "init"]
  /\ lastPut = [k \in StoreKeys |-> Null]
  /\ nPuts = 0
  /\ monitor = RealTimeMonitorInit
  /\ dexManager = DEXManagerInit
  /\ timers = << >>
  /\ connectionManager = ConnectionManagerInit
  /\ arbitrageDetector = ArbitrageDetectorInit
  /\ opportunityTracker = OpportunityTrackerInit
  /\ pendingStarts = << >>
  /\ refreshCycle = Null
  /\ stopped = FALSE
  /\ lastCall = "none"
  /\ budget = [calls |-> 0, deliveries |-> 0]

HistoryNext == Tick \/ HistoryPut \/ StoreRecord \/ StoreSweep

HistorySpec == HistoryInit /\ [][HistoryNext]_vars

\* buffer is what an insertion of item into before leaves under capacity cap: the most
\* recent elements in arrival order, the oldest dropped on overflow
KeepsMostRecent(buffer, before, item, cap) ==
  /\ Len(buffer) = Min(Len(before) + 1, cap)
  /\ buffer[Len(buffer)] = item
  /\ \A i \in 1..(Len(buffer) - 1) : buffer[i] = before[Len(before) - (Len(buffer) - 1) + i]

\* C11: after any sequence of put, recordOpportunity and sweep every per-pair price
\* history holds at most priceHistorySize quotes and the opportunity history at most
\* its maxSize opportunities; an insertion that overflows drops the oldest element, so
\* that the buffer is the most recent insertions in arrival order.
C11_HistoriesBounded ==
  /\ \A i \in 1..Len(dataManager.priceHistory) :
       Len(dataManager.priceHistory[i].v.prices) <= maxHistorySize
  /\ Len(dataManager.opportunityHistory.opportunities) <= OpportunityMaxSize
  /\ ret.op = "put" =>
       KeepsMostRecent(MapGet(dataManager.priceHistory, getPairKey(ret.quote.pair)).prices,
                       ret.historyBefore, ret.quote, maxHistorySize)
  /\ ret.op = "record" =>
       KeepsMostRecent(dataManager.opportunityHistory.opportunities,
                       ret.historyBefore, ret.opportunity, OpportunityMaxSize)

\* a recordOpportunity found the opportunity history full, after a put had found its
\* pair's price history full
C11_Witness ==
  /\ ret.op = "record"
  /\ Len(ret.historyBefore) = OpportunityMaxSize
  /\ nPuts > maxHistorySize
  /\ Len(dataManager.priceHistory) = 1

HistoryLimits == {<< >>, <<0>>, <<1>>, <<3>>}

\* dataManager.getPriceHistory(pair, limit)
GetHistory ==
  \E pair \in StorePairs, limit \in HistoryLimits :
    /\ ret.op # "history"
    /\ ret' = [op |-> "history", pair |-> pair, limit |-> limit,
               value |-> getPriceHistory(dataManager, pair, limit)]
    /\ UNCHANGED <<now, dataManager, lastPut, nPuts, orchestrator>>

\* puts and reads of the price history of a store that starts empty
ReadNext == Tick \/ HistoryPut \/ GetHistory

ReadSpec == StoreInit /\ [][ReadNext]_vars

\* the quotes stored for the pair, in arrival order
Stored(pair) ==
  IF MapHas(dataManager.priceHistory, getPairKey(pair))
    THEN MapGet(dataManager.priceHistory, getPairKey(pair)).prices ELSE << >>

\* C30: history(pair, limit) returns the quotes stored for the pair in arrival order,
\* most recent last; with a limit it returns their tail of at most limit elements,
\* for every limit >= 0, zero included; for a pair never stored it returns nothing.
C30_HistoryTail ==
  ret.op = "history" =>
    /\ ret.limit = << >> => ret.value = Stored(ret.pair)
    /\ ret.limit # << >> =>
         /\ Len(ret.value) = Min(ret.limit[1], Len(Stored(ret.pair)))
         /\ \A i \in 1..Len(ret.value) :
              ret.value[i] = Stored(ret.pair)[Len(Stored(ret.pair)) - Len(ret.value) + i]

\* the entry's age since it was stored does not exceed its TTL
Unexpired(entry, t) == t - entry.timestamp <= entry.ttl

\* the quote or opportunity is not older than the 24-hour horizon
InHorizon(item, t) == t - item.timestamp <= MaxAge

\* C29: sweep removes every expired cache entry and every history quote and recorded
\* opportunity older than the horizon, and nothing else: the unexpired entries and
\* the in-horizon elements remain, in their original order.
C29_SweepExact ==
  [][ret'.op = "sweep" =>
       /\ dataManager'.priceCache =
            SelectSeq(dataManager.priceCache, LAMBDA e : Unexpired(e.v, now))
       /\ Len(dataManager'.priceHistory) = Len(dataManager.priceHistory)
       /\ \A i \in 1..Len(dataManager.priceHistory) :
            /\ dataManager'.priceHistory[i].k = dataManager.priceHistory[i].k
            /\ dataManager'.priceHistory[i].v.maxSize = dataManager.priceHistory[i].v.maxSize
            /\ dataManager'.priceHistory[i].v.prices =
                 SelectSeq(dataManager.priceHistory[i].v.prices,
                           LAMBDA q : InHorizon(q, now))
       /\ dataManager'.opportunityHistory.opportunities =
            SelectSeq(dataManager.opportunityHistory.opportunities,
                      LAMBDA o : InHorizon(o, now))
       /\ dataManager'.opportunityHistory.maxSize = dataManager.opportunityHistory.maxSize
       /\ dataManager'.cleanupInterval = dataManager.cleanupInterval]_vars

\* after a sweep: an expired entry is gone and an unexpired one is kept, a quote
\* within the horizon is kept, and nothing older than the horizon is left of the
\* aged quote and opportunities the store began with
C29_Witness ==
  /\ ret.op = "sweep"
  /\ now > StartTime + SweepMargin
  /\ \E p \in StorePairs, q \in StorePairs :
       /\ lastPut[StoreKey(DEXOrder[1], p)] # Null
       /\ ~Live(DEXOrder[1], p, now)
       /\ ~MapHas(dataManager.priceCache, getPriceCacheKey(DEXOrder[1], p))
       /\ Live(DEXOrder[1], q, now)
       /\ MapHas(dataManager.priceCache, getPriceCacheKey(DEXOrder[1], q))
  /\ MapGet(dataManager.priceHistory, getPairKey(SOL_USDC)).prices # << >>
  /\ \A i \in 1..Len(dataManager.priceHistory) :
       \A j \in 1..Len(dataManager.priceHistory[i].v.prices) :
         InHorizon(dataManager.priceHistory[i].v.prices[j], now)
  /\ Len(dataManager.opportunityHistory.opportunities) >= OpportunityMaxSize - 1 - AgedEntries
  /\ \A i \in 1..AgedEntries :
       InHorizon(dataManager.opportunityHistory.opportunities[i], now)

-----------------------------------------------------------------------------
(* The running system: calls of the public interface, timers, transport    *)
(* events.  A start() call runs to its await and is resumed as a later job *)
(* (StartResume); the caller may make further calls in between.  Timer     *)
(* callbacks and transport events are jobs of their own and run only when  *)
(* no continuation is waiting; the awaits inside a timer callback settle   *)
(* within its own job, since the adapters' methods never wait.             *)

MaxCalls == 3

MaxDeliveries == 2

MaxSockets == 5

Prices == {100, 105}

MonitorPairs == {WSOL_USDC}

Idle == pendingStarts = << >>

Pipeline == [dm |-> dataManager, det |-> arbitrageDetector, tracker |-> opportunityTracker,
             returned |-> << >>, suppressed |-> << >>, inputs |-> << >>]

Venues == [dexes |-> dexManager, timers |-> timers]

\* start() up to its first suspension: initializeAll has called initialize on each
\* adapter, and failOf tells whose initialize() rejected
StartCallWith(failOf) ==
  /\ budget.calls < MaxCalls
  /\ budget' = [budget EXCEPT !.calls = @ + 1]
  /\ lastCall' = "start"
  /\ dexManager' = initializeAll(dexManager, failOf)
  /\ pendingStarts' = Append(pendingStarts, [wasActive |-> monitor.isRunning \/ ~Idle,
                                             failed |-> {name \in DEXNames : failOf[name]}])
  /\ stopped' = FALSE
  /\ ret' = [op |-> "startCall", failed |-> {name \in DEXNames : failOf[name]},
             subscriptionsBefore |-> [name \in DEXNames |-> dexManager[name].subscriptions]]
  /\ UNCHANGED <<now, dataManager, lastPut, nPuts, monitor, timers, connectionManager,
                 arbitrageDetector, opportunityTracker, refreshCycle>>

\* the adapters of the repository: initialize() sets isEnabled and resolves
StartCall == StartCallWith([name \in DEXNames |-> FALSE])

\* start() from the await on: setupMonitoring, startRealTimeUpdates,
\* startHealthMonitoring, startSummaryDisplay, isRunning = true
StartResume ==
  /\ ~Idle
  /\ LET pairs == monitor.monitoredPairs \o COMMON_PAIRS
         V == setupPairsUpTo(Venues, pairs, Len(pairs))
         withPrice == setInterval(V.timers, "priceUpdate", "", Null)
         withHealth == setInterval(withPrice, "healthCheck", "", Null)
         withSummary == setInterval(withHealth, "summaryDisplay", "", Null)
     IN /\ monitor' = [isRunning |-> TRUE,
                       monitoredPairs |-> pairs,
                       slotSubscription |-> TRUE,
                       priceUpdateInterval |-> Len(withPrice),
                       healthCheckInterval |-> Len(withHealth),
                       summaryDisplayInterval |-> Len(withSummary)]
        /\ dexManager' = V.dexes
        /\ timers' = withSummary
        /\ connectionManager' = subscribeToSlots(connectionManager)
        /\ ret' = [op |-> "start",
                   wasActive |-> Head(pendingStarts).wasActive,
                   failed |-> Head(pendingStarts).failed,
                   error |-> FALSE,
                   pairsBefore |-> Len(monitor.monitoredPairs),
                   timersBefore |-> Cardinality({i \in 1..Len(timers) : timers[i].live})]
  /\ pendingStarts' = Tail(pendingStarts)
  /\ lastCall' = "start"
  /\ UNCHANGED <<now, dataManager, lastPut, nPuts, arbitrageDetector, opportunityTracker,
                 refreshCycle, stopped, budget>>

Stop ==
  /\ budget.calls < MaxCalls
  /\ budget' = [budget EXCEPT !.calls = @ + 1]
  /\ lastCall' = "stop"
  /\ LET cleared == clearIfSet(clearIfSet(clearIfSet(timers, monitor.summaryDisplayInterval),
                                          monitor.healthCheckInterval),
                               monitor.priceUpdateInterval)
         V == unsubscribePairsUpTo([dexes |-> dexManager, timers |-> cleared],
                                   monitor.monitoredPairs, Len(monitor.monitoredPairs))
     IN /\ monitor' = [monitor EXCEPT !.isRunning = FALSE,
                                      !.summaryDisplayInterval = 0,
                                      !.healthCheckInterval = 0,
                                      !.priceUpdateInterval = 0]
        /\ dexManager' = V.dexes
        /\ timers' = V.timers
        /\ connectionManager' = close(connectionManager)
        /\ dataManager' = shutdown(dataManager)
        /\ ret' = [op |-> "stop",
                   consecutive |-> lastCall = "stop",
                   released |->
                     (IF V.timers # timers THEN {"timers"} ELSE {})
                     \cup (IF V.dexes # dexManager THEN {"subscriptions"} ELSE {})
                     \cup (IF connectionManager.websocket \in {"OPEN", "CONNECTING"}
                             THEN {"transport"} ELSE {})
                     \cup (IF dataManager.cleanupInterval = "active" THEN {"store"} ELSE {}),
                   same |-> /\ monitor' = monitor
                            /\ V.dexes = dexManager
                            /\ V.timers = timers
                            /\ connectionManager' = connectionManager
                            /\ dataManager' = dataManager]
  /\ stopped' = TRUE
  /\ UNCHANGED <<now, lastPut, nPuts, arbitrageDetector, opportunityTracker, pendingStarts, refreshCycle>>

addPair(pair) ==
    /\ budget.calls < MaxCalls
    /\ budget' = [budget EXCEPT !.calls = @ + 1]
    /\ lastCall' = "addPair"
    /\ IF isPairMonitored(monitor, pair)
         THEN /\ ret' = [op |-> "addPair", pair |-> pair, added |-> FALSE,
                         running |-> monitor.isRunning, before |-> Venues]
              /\ UNCHANGED <<monitor, dexManager, timers>>
         ELSE LET V == IF monitor.isRunning THEN subscribeToAllUpdates(Venues, pair)
                       ELSE Venues
              IN /\ monitor' = [monitor EXCEPT !.monitoredPairs = Append(@, pair)]
                 /\ dexManager' = V.dexes
                 /\ timers' = V.timers
                 /\ ret' = [op |-> "addPair", pair |-> pair, added |-> TRUE,
                            running |-> monitor.isRunning, before |-> Venues]
    /\ UNCHANGED <<now, dataManager, lastPut, nPuts, connectionManager, arbitrageDetector,
                   opportunityTracker, pendingStarts, stopped>>

addPairToMonitor == \E pair \in MonitorPairs : addPair(pair) /\ UNCHANGED refreshCycle

removePair(pair) ==
    /\ budget.calls < MaxCalls
    /\ budget' = [budget EXCEPT !.calls = @ + 1]
    /\ lastCall' = "removePair"
    /\ IF ~isPairMonitored(monitor, pair)
         THEN /\ ret' = [op |-> "removePair", pair |-> pair, removed |-> FALSE,
                         pairsBefore |-> monitor.monitoredPairs, before |-> Venues]
              /\ UNCHANGED <<monitor, dexManager, timers>>
         ELSE LET V == unsubscribeFromAll(Venues, pair)
              IN /\ monitor' = [monitor EXCEPT !.monitoredPairs = removeFirst(@, pair)]
                 /\ dexManager' = V.dexes
                 /\ timers' = V.timers
                 /\ ret' = [op |-> "removePair", pair |-> pair, removed |-> TRUE,
                            pairsBefore |-> monitor.monitoredPairs, before |-> Venues]
    /\ UNCHANGED <<now, dataManager, lastPut, nPuts, connectionManager, arbitrageDetector,
                   opportunityTracker, pendingStarts, stopped>>

removePairFromMonitor == \E pair \in MonitorPairs : removePair(pair) /\ UNCHANGED refreshCycle

\* a venue's push timer fires: fetchPrice, then the subscribed callback, which is
\* handlePriceUpdate
PushFire ==
  \E i \in LiveTimers(timers, "push"), p \in Prices :
    /\ Idle
    /\ budget.deliveries < MaxDeliveries
    /\ budget' = [budget EXCEPT !.deliveries = @ + 1]
    /\ dexManager[timers[i].dex].isEnabled
    /\ \E P \in {handlePriceUpdate(Pipeline, timers[i].dex,
                                    fetchPrice(timers[i].dex, timers[i].pair, p, now), now)} :
          /\ dataManager' = P.dm
          /\ arbitrageDetector' = P.det
          /\ opportunityTracker' = P.tracker
          /\ ret' = [op |-> "push", running |-> monitor.isRunning, afterStop |-> stopped,
                     pair |-> timers[i].pair,
                     returned |-> P.returned, suppressed |-> P.suppressed,
                     storeChanged |-> P.dm # dataManager]
    /\ UNCHANGED <<now, lastPut, nPuts, monitor, dexManager, timers, connectionManager,
                   pendingStarts, refreshCycle, stopped, lastCall>>

\* a priceUpdateInterval timer fires: refreshAllPrices over the monitored pairs
RefreshFire ==
  \E i \in LiveTimers(timers, "priceUpdate"), priceOf \in [DEXNames -> Prices] :
    /\ Idle
    /\ budget.deliveries < MaxDeliveries
    /\ budget' = [budget EXCEPT !.deliveries = @ + 1]
    /\ \E P \in {refreshAllPrices(Pipeline, dexManager, monitor.monitoredPairs, priceOf,
                                   now, Len(monitor.monitoredPairs))} :
          /\ dataManager' = P.dm
          /\ arbitrageDetector' = P.det
          /\ opportunityTracker' = P.tracker
          /\ ret' = [op |-> "refresh", running |-> monitor.isRunning, afterStop |-> stopped,
                     returned |-> P.returned, suppressed |-> P.suppressed,
                     storeChanged |-> P.dm # dataManager]
    /\ UNCHANGED <<now, lastPut, nPuts, monitor, dexManager, timers, connectionManager,
                   pendingStarts, refreshCycle, stopped, lastCall>>

\* a healthCheckInterval timer fires: performHealthCheck only reads and logs
HealthCheckFire ==
  /\ Idle
  /\ LiveTimers(timers, "healthCheck") # {}
  /\ ret' = [op |-> "healthCheck", afterStop |-> stopped]
  /\ UNCHANGED <<now, dataManager, lastPut, nPuts, monitor, dexManager, timers,
                 connectionManager, arbitrageDetector, opportunityTracker, pendingStarts, refreshCycle,
                 stopped, lastCall, budget>>

\* a summaryDisplayInterval timer fires: displayRecentOpportunitiesSummary only reads
SummaryFire ==
  /\ Idle
  /\ LiveTimers(timers, "summaryDisplay") # {}
  /\ ret' = [op |-> "summaryDisplay", afterStop |-> stopped]
  /\ UNCHANGED <<now, dataManager, lastPut, nPuts, monitor, dexManager, timers,
                 connectionManager, arbitrageDetector, opportunityTracker, pendingStarts, refreshCycle,
                 stopped, lastCall, budget>>

\* the socket's open event
WsOpen ==
  /\ Idle
  /\ connectionManager.websocket = "CONNECTING"
  /\ connectionManager' = [connectionManager EXCEPT !.websocket = "OPEN",
                                                    !.reconnectAttempts = 0,
                                                    !.isReconnecting = FALSE]
  /\ ret' = [op |-> "wsOpen"]
  /\ UNCHANGED <<now, dataManager, lastPut, nPuts, monitor, dexManager, timers,
                 arbitrageDetector, opportunityTracker, pendingStarts, refreshCycle, stopped, lastCall,
                 budget>>

\* the socket's close event, after close() or after the connection dropped
WsClose ==
  /\ Idle
  /\ connectionManager.websocket \in {"CONNECTING", "OPEN", "CLOSING"}
  /\ connectionManager' =
       handleWebSocketClose([connectionManager EXCEPT !.websocket = "CLOSED"])
  /\ ret' = [op |-> "wsClose", afterStop |-> stopped,
             from |-> connectionManager.websocket]
  /\ UNCHANGED <<now, dataManager, lastPut, nPuts, monitor, dexManager, timers,
                 arbitrageDetector, opportunityTracker, pendingStarts, refreshCycle, stopped, lastCall,
                 budget>>

\* the socket's error event: the handler runs while the failed socket is closing,
\* and the socket's close event follows
WsError ==
  /\ Idle
  /\ connectionManager.websocket \in {"CONNECTING", "OPEN"}
  /\ connectionManager' =
       handleWebSocketError([connectionManager EXCEPT !.websocket = "CLOSING"])
  /\ ret' = [op |-> "wsError", afterStop |-> stopped]
  /\ UNCHANGED <<now, dataManager, lastPut, nPuts, monitor, dexManager, timers,
                 arbitrageDetector, opportunityTracker, pendingStarts, refreshCycle, stopped, lastCall,
                 budget>>

\* the reconnect timeout fires: setupWebSocket
ReconnectFire ==
  /\ Idle
  /\ connectionManager.reconnectTimers > 0
  /\ connectionManager.sockets < MaxSockets
  /\ connectionManager' =
       setupWebSocket([connectionManager EXCEPT !.reconnectTimers = @ - 1])
  /\ ret' = [op |-> "reconnect", afterStop |-> stopped]
  /\ UNCHANGED <<now, dataManager, lastPut, nPuts, monitor, dexManager, timers,
                 arbitrageDetector, opportunityTracker, pendingStarts, refreshCycle, stopped, lastCall,
                 budget>>

Init ==
  /\ now = StartTime
  /\ dataManager = DataManagerInit
  /\ ret = [op |-> "init"]
  /\ lastPut = [k \in StoreKeys |-> Null]
  /\ nPuts = 0
  /\ monitor = RealTimeMonitorInit
  /\ dexManager = DEXManagerInit
  /\ timers = << >>
  /\ connectionManager = ConnectionManagerInit
  /\ arbitrageDetector = ArbitrageDetectorInit
  /\ opportunityTracker = OpportunityTrackerInit
  /\ pendingStarts = << >>
  /\ refreshCycle = Null
  /\ stopped = FALSE
  /\ lastCall = "none"
  /\ budget = [calls |-> 0, deliveries |-> 0]

\* the monitor with its timers, the socket reporting no event
Next ==
  \/ StartCall \/ StartResume \/ Stop \/ addPairToMonitor \/ removePairFromMonitor
  \/ PushFire \/ RefreshFire \/ HealthCheckFire \/ SummaryFire \/ StoreSweep \/ Tick

Spec == Init /\ [][Next]_vars

\* start and stop with the socket's events
TransportNext == StartCall \/ StartResume \/ Stop \/ WsOpen \/ WsClose \/ ReconnectFire

TransportSpec == Init /\ [][TransportNext]_vars

\* a connecting socket reports its outcome: it opens or it closes
WsSettle == connectionManager.websocket = "CONNECTING" /\ (WsOpen \/ WsClose)

\* the transport where every scheduled step runs: the continuation of start(), the
\* reconnect timeout, and the outcome of a connection attempt
ReconnectSpec ==
  /\ TransportSpec
  /\ WF_vars(StartResume)
  /\ WF_vars(ReconnectFire)
  /\ WF_vars(WsSettle)

\* the connection is down while the monitor has not been stopped
Dropped ==
  /\ connectionManager.websocket = "CLOSED"
  /\ ~stopped
  /\ connectionManager.sockets < MaxSockets

\* C25: after the WebSocket connection drops, the connection manager keeps retrying
\* until it is reconnected or 10 attempts have been made, also after one or more
\* failed retries.
C25_RetriesUntilReconnected ==
  Dropped ~> (\/ connectionManager.websocket = "OPEN"
              \/ connectionManager.reconnectAttempts >= maxReconnectAttempts
              \/ stopped)

\* the socket's events under a monitor that is started and never stopped:
\* connections that open, fail with an error, and close
BackoffNext == StartCall \/ StartResume \/ WsOpen \/ WsError \/ WsClose \/ ReconnectFire

BackoffSpec == Init /\ [][BackoffNext]_vars

\* C39: reconnectAttempts never exceeds 10, the reconnect delay never decreases and
\* never exceeds 30000 ms, and at most one reconnect timeout is pending at any time,
\* also when an error event and a close event arrive for the same failure.
C39_BackoffBounded ==
  [][/\ connectionManager'.reconnectAttempts <= maxReconnectAttempts
     /\ connectionManager'.reconnectDelay >= connectionManager.reconnectDelay
     /\ connectionManager'.reconnectDelay <= MaxReconnectDelayMs * 10
     /\ connectionManager'.reconnectTimers <= 1]_vars

\* the close event of a socket whose error event already scheduled the reconnection,
\* with the delay at its limit
C39_Witness ==
  /\ ret.op = "wsClose"
  /\ ret.from = "CLOSING"
  /\ connectionManager.reconnectTimers = 1
  /\ connectionManager.reconnectDelay = MaxReconnectDelayMs * 10

-----------------------------------------------------------------------------
(* The detector on its own: detectOpportunities over the quotes of the     *)
(* venues for one pair at a time, each returned opportunity stored and     *)
(* tracked as the monitor does.                                            *)

DetectPairs == {SOL_USDC, WSOL_USDC, XSOL_USDC}

DetectAnswers == Prices \cup {Throws}

ProfitThresholds == {30000}

\* refreshAllPrices for one pair
Detect ==
  \E pair \in DetectPairs, priceOf \in [DEXNames -> DetectAnswers] :
    /\ budget.deliveries < MaxDeliveries
    /\ budget' = [budget EXCEPT !.deliveries = @ + 1]
    /\ \E P \in {refreshPair(Pipeline, dexManager, pair, priceOf, now)} :
          /\ dataManager' = P.dm
          /\ arbitrageDetector' = P.det
          /\ opportunityTracker' = P.tracker
          /\ ret' = [op |-> "detect", pair |-> pair, inputs |-> P.inputs,
                     returned |-> P.returned, suppressed |-> P.suppressed,
                     ledgerBefore |-> arbitrageDetector.recentOpportunities]
    /\ UNCHANGED <<now, lastPut, nPuts, monitor, dexManager, timers, connectionManager,
                   pendingStarts, refreshCycle, stopped, lastCall>>

\* handlePriceUpdate for one pushed quote
Deliver ==
  \E name \in DEXNames, pair \in DetectPairs, p \in Prices :
    /\ budget.deliveries < MaxDeliveries
    /\ budget' = [budget EXCEPT !.deliveries = @ + 1]
    /\ \E P \in {handlePriceUpdate(Pipeline, name, fetchPrice(name, pair, p, now), now)} :
          /\ dataManager' = P.dm
          /\ arbitrageDetector' = P.det
          /\ opportunityTracker' = P.tracker
          /\ ret' = [op |-> "deliver", pair |-> pair, inputs |-> P.inputs,
                     returned |-> P.returned, suppressed |-> P.suppressed,
                     ledgerBefore |-> arbitrageDetector.recentOpportunities]
    /\ UNCHANGED <<now, lastPut, nPuts, monitor, dexManager, timers, connectionManager,
                   pendingStarts, refreshCycle, stopped, lastCall>>

\* a quote captured age milliseconds before t, with no book, a book of zero width, a
\* book one dollar either side of the price, or a crossed book (bid above ask)
PricingQuote(dex, price, liquidity, age, book, t) ==
  [dex |-> dex, pair |-> SOL_USDC, price |-> price, liquidity |-> liquidity,
   timestamp |-> t - age,
   bid |-> CASE book = "none" -> 0 [] book = "tight" -> price [] book = "wide" -> price - 1
             [] book = "crossed" -> price + 1,
   ask |-> CASE book = "none" -> 0 [] book = "tight" -> price [] book = "wide" -> price + 1
             [] book = "crossed" -> price - 1]

Liquidities == {0, 200, 1000000}

SourceLists == { << >>, <<"Raydium">>, <<"Raydium", "Orca">>,
                 <<"Raydium", "Orca", "Serum">> }

SourceNames == {"Raydium", "Orca", "Serum"}

CallBooks == {"none", "wide", "crossed"}

\* detectOpportunities called with a map of up to three quotes, one of which may be
\* malformed
DetectCall ==
  /\ ret.op = "init"
  /\ \E names \in SourceLists, priceOf \in [SourceNames -> Prices],
        bookOf \in [SourceNames -> CallBooks],
        liquidityOf \in [SourceNames -> Liquidities \ {200}],
        bad \in SourceNames \cup {"none"} :
       \E priceQuotes \in
            {[i \in 1..Len(names) |->
                [k |-> names[i],
                 v |-> PricingQuote(names[i], priceOf[names[i]],
                                    IF names[i] = bad THEN Throws
                                    ELSE liquidityOf[names[i]],
                                    0, bookOf[names[i]], now)]]} :
         \E found \in {detectOpportunities(arbitrageDetector, SOL_USDC, priceQuotes, now)} :
           /\ arbitrageDetector' = found.det
           /\ ret' = [op |-> "detectCall", input |-> priceQuotes,
                      returned |-> found.reported, suppressed |-> found.suppressed]
  /\ budget' = [budget EXCEPT !.deliveries = MaxDeliveries]
  /\ UNCHANGED <<now, dataManager, lastPut, nPuts, monitor, dexManager, timers,
                 connectionManager, opportunityTracker, pendingStarts, refreshCycle, stopped, lastCall>>

\* updateConfig({ profitThreshold })
SetProfitThreshold ==
  \E threshold \in ProfitThresholds \ {arbitrageDetector.profitThreshold} :
    /\ arbitrageDetector' = updateConfig(arbitrageDetector, [profitThreshold |-> threshold])
    /\ ret' = [op |-> "updateConfig"]
    /\ UNCHANGED <<now, dataManager, lastPut, nPuts, monitor, dexManager, timers,
                   connectionManager, opportunityTracker, pendingStarts, refreshCycle, stopped,
                   lastCall, budget>>

\* the ledger's window passes without a call
Elapse ==
  /\ now <= StartTime + MaxElapsedSeconds * 1000
  /\ now' = now + LedgerWindow + 1
  /\ ret' = [op |-> "tick"]
  /\ UNCHANGED <<dataManager, lastPut, nPuts, orchestrator>>

DetectorNext == Detect \/ Deliver \/ DetectCall \/ SetProfitThreshold \/ Tick \/ Elapse

DetectorSpec == Init /\ [][DetectorNext]_vars

\* the candidate passes the profit and confidence thresholds, so that only the
\* rate limit can have filtered it out
PassesThresholds(opportunity) ==
  /\ opportunity.netProfitPercent >= arbitrageDetector.profitThreshold
  /\ opportunity.confidence >= ConfidenceThreshold

\* C12: the rate limit filters a candidate out only when a report for the same pair
\* (same base and quote addresses) and the same buy and sell venues was accepted less
\* than 30 seconds before: an accepted report for a pair with other addresses never
\* suppresses it, equal symbols or not.
C12_LedgerKeyedByAddresses ==
  ret.op = "detect" =>
    \A i \in 1..Len(ret.suppressed) :
      PassesThresholds(ret.suppressed[i]) =>
        \E j \in 1..Len(opportunityTracker.opportunities) :
          LET a == opportunityTracker.opportunities[j].opportunity
              b == ret.suppressed[i]
          IN /\ SamePair(a.pair, b.pair)
             /\ a.buyDex = b.buyDex /\ a.sellDex = b.sellDex
             /\ b.timestamp - a.timestamp < Cooldown

\* the handler ran shouldReportOpportunity on at least one candidate
Checked == ret.op \in {"detect", "deliver"} /\ Len(ret.returned) + Len(ret.suppressed) > 0

\* C26: every opportunity detect returns has netProfitPercent >= profitThreshold and
\* confidence >= 0.6, and a candidate rejected for either reason leaves the rate-limit
\* ledger unchanged: every ledger entry is one that was there before or the entry an
\* accepted report wrote.
C26_ThresholdsBeforeLedger ==
  ret.op \in {"detect", "deliver"} =>
    /\ \A i \in 1..Len(ret.returned) : PassesThresholds(ret.returned[i])
    /\ \A j \in 1..Len(arbitrageDetector.recentOpportunities) :
         LET e == arbitrageDetector.recentOpportunities[j] IN
           \/ \E k \in 1..Len(ret.ledgerBefore) : ret.ledgerBefore[k] = e
           \/ \E i \in 1..Len(ret.returned) :
                /\ opportunityKey(ret.returned[i]) = e.k
                /\ ret.returned[i].timestamp = e.v
    /\ ret.returned = << >> => arbitrageDetector.recentOpportunities = ret.ledgerBefore

\* a candidate rejected for the profit threshold, its key absent from the ledger
C26_Witness ==
  /\ ret.op \in {"detect", "deliver"}
  /\ \E i \in 1..Len(ret.suppressed) :
       /\ ret.suppressed[i].netProfitPercent < arbitrageDetector.profitThreshold
       /\ ~MapHas(arbitrageDetector.recentOpportunities, opportunityKey(ret.suppressed[i]))

\* C27: after any shouldReport check, accepting or rejecting, the ledger holds no
\* entry older than 5 minutes.
C27_LedgerPruned ==
  Checked =>
    \A j \in 1..Len(arbitrageDetector.recentOpportunities) :
      ~(arbitrageDetector.recentOpportunities[j].v < now - LedgerWindow)

\* two maps hold the same quotes under the same venue names
SameEntries(a, b) == {a[i] : i \in 1..Len(a)} = {b[i] : i \in 1..Len(b)}

\* C28: every detect invocation of the orchestrator, push-triggered or
\* timer-triggered, receives exactly the store's allLatest(pair) snapshot of that
\* moment: when the snapshot holds two sources or more detect is invoked, and its
\* input is the snapshot, whether or not a source's fetch failed in this cycle.
C28_DetectOnSnapshot ==
  ret.op \in {"detect", "deliver"} =>
    \A snapshot \in {getAllLatestPrices(dataManager, ret.pair, now)} :
      /\ \A i \in 1..Len(ret.inputs) : SameEntries(ret.inputs[i], snapshot)
      /\ Len(snapshot) >= 2 => ret.inputs # << >>

\* the candidates of the last detect call: those returned and those filtered out
Candidates == ret.returned \o ret.suppressed

\* the number of candidates that buy on venue a and sell on venue b
CandidatesFor(a, b) ==
  Cardinality({c \in 1..Len(Candidates) :
                 Candidates[c].buyDex = a /\ Candidates[c].sellDex = b})

Yields(a, b) ==
  calculateArbitrage(arbitrageDetector, SOL_USDC, a, b, MapGet(ret.input, a),
                     MapGet(ret.input, b), 0, now) # Null

\* C32: an error raised while computing one direction yields no opportunity for that
\* direction and never aborts detect: the remaining directions are still evaluated
\* and their opportunities are among the candidates.
C32_ErrorsIsolated ==
  ret.op = "detectCall" =>
    \A i \in 1..Len(ret.input), j \in 1..Len(ret.input) :
      i # j =>
        IF Malformed(ret.input[i].v) \/ Malformed(ret.input[j].v)
          THEN CandidatesFor(ret.input[i].k, ret.input[j].k) = 0
          ELSE CandidatesFor(ret.input[i].k, ret.input[j].k)
                 = IF Yields(ret.input[i].k, ret.input[j].k) THEN 1 ELSE 0

\* the first source of three is malformed and a direction between the other two is a
\* candidate
C32_Witness ==
  /\ ret.op = "detectCall"
  /\ Len(ret.input) = 3
  /\ Malformed(ret.input[1].v)
  /\ CandidatesFor(ret.input[2].k, ret.input[3].k) = 1

\* bid <= price <= ask, where the quote has those fields
Ordered(quote) ==
  /\ quote.bid # 0 => quote.bid <= quote.price
  /\ quote.ask # 0 => quote.price <= quote.ask

\* C38: for two quotes that each satisfy bid <= price <= ask where present, at most
\* one of the two directions between their sources is a candidate.
C38_OneDirectionOnly ==
  ret.op = "detectCall" =>
    \A i \in 1..Len(ret.input), j \in 1..Len(ret.input) :
      (i # j /\ Ordered(ret.input[i].v) /\ Ordered(ret.input[j].v)) =>
        CandidatesFor(ret.input[i].k, ret.input[j].k)
          + CandidatesFor(ret.input[j].k, ret.input[i].k) <= 1

\* two quotes with ordered books, one direction between them a candidate
C38_Witness ==
  /\ ret.op = "detectCall"
  /\ \E i \in 1..Len(ret.input), j \in 1..Len(ret.input) :
       /\ i # j
       /\ ret.input[i].v.bid # 0 /\ Ordered(ret.input[i].v)
       /\ ret.input[j].v.bid # 0 /\ Ordered(ret.input[j].v)
       /\ CandidatesFor(ret.input[i].k, ret.input[j].k) = 1

-----------------------------------------------------------------------------
(* The full refresh as the event loop runs it: refreshAllPrices suspends at  *)
(* `await fetchAllPrices(pair)` inside `for (const pair of monitoredPairs)`, *)
(* and addPairToMonitor and removePairFromMonitor may run before it resumes. *)
(* refreshCycle holds the pair whose fetch is awaited and the array          *)
(* iterator's next index; fetched and stayed are history: the pairs whose    *)
(* fetch was issued, and the pairs monitored since the cycle began.          *)

CyclePairs == {SOL_USDC, XSOL_USDC}

\* the first start()
StartOnce == budget.calls = 0 /\ StartCall

\* the iterator's next(): the loop body starts on monitoredPairs[index] and suspends
\* at its fetch, or the loop is over
nextPair(cycle, pairs) ==
  IF cycle.index <= Len(pairs)
    THEN [cycle EXCEPT !.index = @ + 1,
                       !.pair = pairs[cycle.index],
                       !.fetched = Append(@, pairs[cycle.index]),
                       !.done = FALSE]
    ELSE [cycle EXCEPT !.done = TRUE]

\* the priceUpdateInterval timer fires: refreshAllPrices up to its first await
RefreshBegin ==
  /\ Idle
  /\ refreshCycle = Null
  /\ budget.deliveries < MaxDeliveries
  /\ LiveTimers(timers, "priceUpdate") # {}
  /\ budget' = [budget EXCEPT !.deliveries = @ + 1]
  /\ \E cycle \in {nextPair([index |-> 1, pair |-> Null, fetched |-> << >>, done |-> FALSE,
                            stayed |-> { monitor.monitoredPairs[i] :
                                           i \in 1..Len(monitor.monitoredPairs) }],
                           monitor.monitoredPairs)} :
       /\ refreshCycle' = IF cycle.done THEN Null ELSE cycle
       /\ ret' = [op |-> IF cycle.done THEN "refreshCycle" ELSE "refreshBegin",
                  fetched |-> cycle.fetched, stayed |-> cycle.stayed]
  /\ UNCHANGED <<now, dataManager, lastPut, nPuts, monitor, dexManager, timers,
                 connectionManager, arbitrageDetector, opportunityTracker, pendingStarts,
                 stopped, lastCall>>

\* the awaited fetch resolves: the rest of the loop body for that pair, then the
\* next iteration up to its await, or the end of the loop
RefreshResume ==
  /\ refreshCycle # Null
  /\ \E priceOf \in [DEXNames -> {100}] :
       \E P \in {refreshPair(Pipeline, dexManager, refreshCycle.pair, priceOf, now)} :
         /\ dataManager' = P.dm
         /\ arbitrageDetector' = P.det
         /\ opportunityTracker' = P.tracker
  /\ \E cycle \in {nextPair(refreshCycle, monitor.monitoredPairs)} :
       /\ refreshCycle' = IF cycle.done THEN Null ELSE cycle
       /\ ret' = [op |-> IF cycle.done THEN "refreshCycle" ELSE "refreshStep",
                  fetched |-> cycle.fetched, stayed |-> cycle.stayed]
  /\ UNCHANGED <<now, lastPut, nPuts, monitor, dexManager, timers, connectionManager,
                 pendingStarts, stopped, lastCall, budget>>

\* calls made once start() has returned
CycleAdd ==
  /\ monitor.isRunning
  /\ \E pair \in CyclePairs : addPair(pair) /\ UNCHANGED refreshCycle

CycleRemove ==
  \E pair \in CyclePairs :
    /\ monitor.isRunning
    /\ removePair(pair)
    /\ refreshCycle' = IF refreshCycle = Null THEN Null
                       ELSE [refreshCycle EXCEPT
                               !.stayed = { q \in @ : ~SamePair(q, pair) }]

CycleNext ==
  StartOnce \/ StartResume \/ CycleAdd \/ CycleRemove \/ RefreshBegin \/ RefreshResume

CycleSpec == Init /\ [][CycleNext]_vars

\* how many times a pair's fetch was issued
Fetches(fetched, pair) ==
  Cardinality({ i \in 1..Len(fetched) : SamePair(fetched[i], pair) })

\* C37: when a full-refresh cycle ends, every pair that was monitored from its
\* beginning to its end has been fetched exactly once, also when pairs were added
\* or removed while the cycle was suspended at a fetch.
C37_StayingPairsFetchedOnce ==
  ret.op = "refreshCycle" =>
    \A pair \in ret.stayed : Fetches(ret.fetched, pair) = 1

-----------------------------------------------------------------------------
(* The stale-only refresh that every tenth slot notification starts, over a  *)
(* store whose quotes may have been captured some time before they were put. *)

staleThreshold == 30000

\* latestPrices.forEach(quote => if (now - quote.timestamp > staleThreshold) ...)
hasStaleData(latestPrices, t) ==
  \E i \in 1..Len(latestPrices) : t - latestPrices[i].v.timestamp > staleThreshold

\* refreshSelectedPrices over the first n monitored pairs: the store afterwards
\* and, per pair, the snapshot that was examined and whether the pair was fetched
RECURSIVE refreshSelectedUpTo(_, _, _, _, _, _)
refreshSelectedUpTo(dm, dexes, pairs, priceOf, t, n) ==
  IF n = 0 THEN [dm |-> dm, checks |-> << >>]
  ELSE Only({ Only({ IF hasStaleData(latestPrices, t) \/ Len(latestPrices) < 2
                       THEN Only({ [dm |-> storeAllUpTo(before.dm, prices, t, Len(prices)),
                                    checks |-> Append(before.checks,
                                                      [pair |-> pairs[n],
                                                       latestPrices |-> latestPrices,
                                                       fetched |-> TRUE])] :
                                   prices \in {fetchAllPrices(dexes, pairs[n], priceOf, t)} })
                       ELSE [dm |-> before.dm,
                             checks |-> Append(before.checks,
                                               [pair |-> pairs[n],
                                                latestPrices |-> latestPrices,
                                                fetched |-> FALSE])] :
                     latestPrices \in {getAllLatestPrices(before.dm, pairs[n], t)} }) :
              before \in {refreshSelectedUpTo(dm, dexes, pairs, priceOf, t, n - 1)} })

refreshSelectedPrices(dm, dexes, pairs, priceOf, t) ==
  refreshSelectedUpTo(dm, dexes, pairs, priceOf, t, Len(pairs))

\* handleSlotUpdate at a slot that is a multiple of ten
SlotRefresh ==
  /\ monitor.isRunning
  /\ pendingStarts = << >>
  /\ budget.deliveries < MaxDeliveries
  /\ \E priceOf \in [DEXNames -> {100}] :
       \E R \in {refreshSelectedPrices(dataManager, dexManager, monitor.monitoredPairs,
                                       priceOf, now)} :
         /\ dataManager' = R.dm
         /\ ret' = [op |-> "slotRefresh", checks |-> R.checks]
  /\ budget' = [budget EXCEPT !.deliveries = @ + 1]
  /\ UNCHANGED <<now, lastPut, nPuts, monitor, dexManager, timers, connectionManager,
                 arbitrageDetector, opportunityTracker, pendingStarts, refreshCycle, stopped, lastCall>>

\* quotes that arrive once the orchestrator is running
PutWhileRunning == monitor.isRunning /\ StorePut

SelectNext == StartOnce \/ StartResume \/ PutWhileRunning \/ Tick \/ SlotRefresh

SelectSpec == Init /\ [][SelectNext]_vars

\* the capture time of the newest quote of a snapshot
RECURSIVE NewestUpTo(_, _)
NewestUpTo(latestPrices, n) ==
  IF n = 0 THEN 0
  ELSE Max(latestPrices[n].v.timestamp, NewestUpTo(latestPrices, n - 1))

\* C33: the stale-only refresh fetches a monitored pair exactly when fewer than
\* two sources have a cached quote for it or the newest cached quote of the pair
\* is older than the staleness threshold; a pair with two sources and a fresh
\* newest quote is not fetched
C33_FetchedIffNewestStale ==
  ret.op = "slotRefresh" =>
    \A i \in 1..Len(ret.checks) :
      ret.checks[i].fetched <=>
        \/ Len(ret.checks[i].latestPrices) < 2
        \/ now - NewestUpTo(ret.checks[i].latestPrices,
                            Len(ret.checks[i].latestPrices)) > staleThreshold

-----------------------------------------------------------------------------
(* The detector's arithmetic on its own: calculateArbitrage applied to two *)
(* quotes of any age, depth and book, for any trade size, at any hour of   *)
(* the day.                                                                *)

HoursOfDay == 0..23

PricingPrices == {100, 101, 105}

TradeSizes == {100, 2000, 20000}

QuoteAges == {0, 6000, 20000}

Books == {"none", "tight", "wide"}

VenuePairs == { <<"Raydium", "Orca">>, <<"Serum", "Saber">> }

\* updateConfig({ tradeSize })
SetTradeSize ==
  \E size \in TradeSizes \ {arbitrageDetector.tradeSize} :
    /\ ret.op = "init"
    /\ arbitrageDetector' = updateConfig(arbitrageDetector, [tradeSize |-> size])
    /\ ret' = [op |-> "updateConfig"]
    /\ UNCHANGED <<now, dataManager, lastPut, nPuts, monitor, dexManager, timers,
                   connectionManager, opportunityTracker, pendingStarts, refreshCycle, stopped,
                   lastCall, budget>>

\* calculateArbitrage for one direction
Price ==
  /\ ret.op \in {"init", "updateConfig"}
  /\ \E names \in VenuePairs, buy \in PricingPrices, sell \in PricingPrices,
        buyLiquidity \in Liquidities, sellLiquidity \in Liquidities \ {200},
        buyAge \in QuoteAges, sellAge \in QuoteAges \ {6000}, book \in Books :
       \E buyQuote \in {PricingQuote(names[1], buy, buyLiquidity, buyAge, book, now)},
          sellQuote \in {PricingQuote(names[2], sell, sellLiquidity, sellAge, book, now)} :
         ret' = [op |-> "arbitrage", buyQuote |-> buyQuote, sellQuote |-> sellQuote,
                 value |-> calculateArbitrage(arbitrageDetector, SOL_USDC, names[1],
                                              names[2], buyQuote, sellQuote,
                                              arbitrageDetector.uuid + 1, now),
                 confidence |-> calculateConfidence(arbitrageDetector, buyQuote, sellQuote,
                                                    arbitrageDetector.tradeSize, now)]
  /\ UNCHANGED <<now, dataManager, lastPut, nPuts, monitor, dexManager, timers,
                 connectionManager, arbitrageDetector, opportunityTracker,
                 pendingStarts, refreshCycle, stopped, lastCall, budget>>

PricingInit ==
  /\ now \in { StartTime + h * 3600000 : h \in HoursOfDay }
  /\ dataManager = DataManagerInit
  /\ ret = [op |-> "init"]
  /\ lastPut = [k \in StoreKeys |-> Null]
  /\ nPuts = 0
  /\ monitor = RealTimeMonitorInit
  /\ dexManager = DEXManagerInit
  /\ timers = << >>
  /\ connectionManager = ConnectionManagerInit
  /\ arbitrageDetector = ArbitrageDetectorInit
  /\ opportunityTracker = OpportunityTrackerInit
  /\ pendingStarts = << >>
  /\ refreshCycle = Null
  /\ stopped = FALSE
  /\ lastCall = "none"
  /\ budget = [calls |-> 0, deliveries |-> 0]

PricingNext == SetTradeSize \/ Price

PricingSpec == PricingInit /\ [][PricingNext]_vars

\* C21: the confidence of every constructed opportunity lies in [0.1, 1.0], whatever the
\* quote ages, the liquidities (zero included, on either side), the trade size, the
\* presence of bid/ask, the venue names and the hour of the day; the computation is
\* defined for every such input.
C21_ConfidenceInRange ==
  ret.op = "arbitrage" =>
    /\ ret.confidence \in 100000..1000000
    /\ ret.value # Null => ret.value.confidence = ret.confidence

\* an opportunity constructed across a venue with no liquidity, its confidence at the floor
C21_Witness ==
  /\ ret.op = "arbitrage"
  /\ ret.value # Null
  /\ ret.buyQuote.liquidity = 0
  /\ ret.value.confidence = 100000

\* C22: no opportunity is constructed with sellPrice <= buyPrice, both being the
\* slippage-adjusted effective prices: every constructed opportunity has
\* sellPrice > buyPrice and spread > 0.
C22_SellAboveBuy ==
  (ret.op = "arbitrage" /\ ret.value # Null) =>
    /\ ret.value.buyPrice = getEffectiveBuyPrice(arbitrageDetector, ret.buyQuote)
    /\ ret.value.sellPrice = getEffectiveSellPrice(arbitrageDetector, ret.sellQuote)
    /\ ret.value.sellPrice > ret.value.buyPrice
    /\ ret.value.spread > 0

\* an opportunity constructed on the narrowest quoted gap
C22_Witness ==
  /\ ret.op = "arbitrage"
  /\ ret.value # Null
  /\ ret.buyQuote.price = 100
  /\ ret.sellQuote.price = 101

\* C23: every opportunity calculateArbitrage constructs has netProfit > 0.
C23_NetProfitPositive ==
  (ret.op = "arbitrage" /\ ret.value # Null) => ret.value.netProfit > 0

\* the quotes A (100) and B (105) of the worked example: deep, without a book
IsExampleQuote(quote, price) ==
  /\ quote.price = price
  /\ quote.liquidity = 1000000
  /\ quote.bid = 0 /\ quote.ask = 0

\* C24: with quote A at 100 and quote B at 105, both with liquidity 1,000,000 and no
\* bid/ask, and a trade size of 100, buying on A and selling on B is a candidate with
\* positive netProfit at every hour of the day, and buying on B and selling on A is no
\* candidate.
C24_WorkedExample ==
  (ret.op = "arbitrage" /\ arbitrageDetector.tradeSize = 100) =>
    /\ (IsExampleQuote(ret.buyQuote, 100) /\ IsExampleQuote(ret.sellQuote, 105)) =>
         (ret.value # Null /\ ret.value.netProfit > 0)
    /\ (IsExampleQuote(ret.buyQuote, 105) /\ IsExampleQuote(ret.sellQuote, 100)) =>
         ret.value = Null

\* the example priced in the hours of highest fees
C24_Witness ==
  /\ ret.op = "arbitrage"
  /\ arbitrageDetector.tradeSize = 100
  /\ IsExampleQuote(ret.buyQuote, 100) /\ IsExampleQuote(ret.sellQuote, 105)
  /\ getHours(now) = 14
  /\ ret.value # Null

-----------------------------------------------------------------------------
(* The registry with adapters that can fail: initialize() may reject, and  *)
(* fetchPrice may resolve to null or reject.  The fan-outs of the          *)
(* DEXManager are called directly, beside start() and stop().              *)

RegistryPairs == {SOL_USDC, XSOL_USDC}

Answers == Prices \cup {ReturnsNull, Throws}

StartCallFailing == \E failOf \in [DEXNames -> BOOLEAN] : StartCallWith(failOf)

FetchAll ==
  \E pair \in RegistryPairs, priceOf \in [DEXNames -> Answers] :
    /\ ret' = [op |-> "fetchAll", pair |-> pair, priceOf |-> priceOf, error |-> FALSE,
               value |-> fetchAllPrices(dexManager, pair, priceOf, now)]
    /\ UNCHANGED <<now, dataManager, lastPut, nPuts, orchestrator>>

SubscribeAll ==
  \E pair \in RegistryPairs :
    /\ budget.calls < MaxCalls
    /\ budget' = [budget EXCEPT !.calls = @ + 1]
    /\ \E V \in {subscribeToAllUpdates(Venues, pair)} :
          /\ dexManager' = V.dexes
          /\ timers' = V.timers
    /\ ret' = [op |-> "subscribeAll", pair |-> pair, before |-> Venues]
    /\ UNCHANGED <<now, dataManager, lastPut, nPuts, monitor, connectionManager,
                   arbitrageDetector, opportunityTracker, pendingStarts, refreshCycle, stopped, lastCall>>

UnsubscribeAll ==
  \E pair \in RegistryPairs :
    /\ budget.calls < MaxCalls
    /\ budget' = [budget EXCEPT !.calls = @ + 1]
    /\ \E V \in {unsubscribeFromAll(Venues, pair)} :
          /\ dexManager' = V.dexes
          /\ timers' = V.timers
    /\ ret' = [op |-> "unsubscribeAll", pair |-> pair, error |-> FALSE, before |-> Venues]
    /\ UNCHANGED <<now, dataManager, lastPut, nPuts, monitor, connectionManager,
                   arbitrageDetector, opportunityTracker, pendingStarts, refreshCycle, stopped, lastCall>>

Health ==
  /\ ret' = [op |-> "health", value |-> getHealthStatus(dexManager)]
  /\ UNCHANGED <<now, dataManager, lastPut, nPuts, orchestrator>>

RegistryNext ==
  \/ StartCallFailing \/ StartResume \/ Stop
  \/ FetchAll \/ SubscribeAll \/ UnsubscribeAll \/ Health

RegistrySpec == Init /\ [][RegistryNext]_vars

\* the adapter's fetch for this call produced a quote
Answered(name) == ret.priceOf[name] \notin {ReturnsNull, Throws}

\* the live push timers of one adapter for a pair (by its addresses)
PushTimers(tm, name, pair) ==
  { i \in LiveTimers(tm, "push") : tm[i].dex = name /\ SamePair(tm[i].pair, pair) }

\* C13: fetchAllPrices never fails; a disabled adapter, one whose fetch rejects and one
\* whose fetch resolves to null are absent from the result; every enabled adapter whose
\* fetch produced a quote is present under its name with that quote; when none
\* succeeds the result is the empty map.
C13_FetchAllIsolatesFailures ==
  ret.op = "fetchAll" =>
    /\ ~ret.error
    /\ \A i \in 1..Len(ret.value) : ret.value[i].k \in DEXNames
    /\ \A name \in DEXNames :
         /\ MapHas(ret.value, name) <=> (dexManager[name].isEnabled /\ Answered(name))
         /\ MapHas(ret.value, name) =>
              MapGet(ret.value, name) = fetchPrice(name, ret.pair, ret.priceOf[name], now)
    /\ (\A name \in DEXNames : ~(dexManager[name].isEnabled /\ Answered(name)))
         => ret.value = << >>

\* one enabled adapter's fetch rejected while another's produced a quote
C13_Witness ==
  /\ ret.op = "fetchAll"
  /\ \E a, b \in DEXNames :
       /\ dexManager[a].isEnabled /\ ret.priceOf[a] = Throws
       /\ MapHas(ret.value, b)

\* C14: initializeAll completes when an adapter's initialize() rejects: that adapter is
\* disabled, the others are enabled with their subscriptions untouched; a disabled
\* adapter is left out of fetchAllPrices, subscribeToAllUpdates and unsubscribeFromAll
\* (its subscriptions and timers stay as they were) and getHealthStatus reports it
\* false, while every enabled adapter is subscribed, unsubscribed and reported true.
C14_FailedInitializeDisables ==
  /\ ret.op = "startCall" =>
       \A name \in DEXNames :
         /\ dexManager[name].isEnabled <=> name \notin ret.failed
         /\ dexManager[name].subscriptions = ret.subscriptionsBefore[name]
  /\ ret.op = "fetchAll" =>
       \A name \in DEXNames : ~dexManager[name].isEnabled => ~MapHas(ret.value, name)
  /\ ret.op \in {"subscribeAll", "unsubscribeAll"} =>
       \A name \in DEXNames :
         ~dexManager[name].isEnabled =>
           /\ dexManager[name].subscriptions = ret.before.dexes[name].subscriptions
           /\ \A i \in 1..Len(timers) :
                timers[i].dex = name => (i <= Len(ret.before.timers) /\ timers[i] = ret.before.timers[i])
  /\ ret.op = "subscribeAll" =>
       \A name \in DEXNames :
         dexManager[name].isEnabled =>
           /\ MapHas(dexManager[name].subscriptions, subscriptionKey(ret.pair))
           /\ PushTimers(timers, name, ret.pair) # {}
  /\ ret.op = "unsubscribeAll" =>
       \A name \in DEXNames :
         dexManager[name].isEnabled =>
           ~MapHas(dexManager[name].subscriptions, subscriptionKey(ret.pair))
  /\ ret.op = "health" =>
       \A name \in DEXNames : ret.value[name] = dexManager[name].isEnabled

\* subscribeToAllUpdates ran with one adapter disabled by a failed initialize() and
\* another enabled
C14_Witness ==
  /\ ret.op = "subscribeAll"
  /\ \E a, b \in DEXNames :
       /\ ~dexManager[a].isEnabled
       /\ PushTimers(timers, a, ret.pair) = {}
       /\ dexManager[b].isEnabled
       /\ PushTimers(timers, b, ret.pair) # {}

\* C35: at any time an adapter has at most one live push timer for a pair: a
\* subscription for a pair the adapter is already subscribed to leaves no earlier
\* timer running that unsubscribe cannot cancel any more.
C35_OnePushTimerPerSourcePair ==
  \A i, j \in LiveTimers(timers, "push") :
    (timers[i].dex = timers[j].dex /\ SamePair(timers[i].pair, timers[j].pair)) => i = j

\* C36: once stop() has called close() on the connection manager, no step schedules
\* a reconnection and no step opens a new socket; in particular the close event that
\* close() itself causes does not start the reconnect logic.
C36_NoReconnectAfterClose ==
  [][(stopped /\ stopped') =>
       /\ connectionManager'.reconnectTimers <= connectionManager.reconnectTimers
       /\ connectionManager'.sockets = connectionManager.sockets]_vars

\* C15: when every adapter's initialize() fails, start() fails with an error and the
\* monitor does not enter Running: no subscription and no timer is left active.
C15_StartFailsWithoutSources ==
  (ret.op = "start" /\ ret.failed = DEXNames) =>
    /\ ret.error
    /\ ~monitor.isRunning
    /\ \A i \in 1..Len(timers) : ~timers[i].live
    /\ \A name \in DEXNames : dexManager[name].subscriptions = << >>

\* C16: an adapter whose fetch rejects is marked disabled, so that later fan-outs leave
\* it out, and the rejection does not fail fetchAllPrices.
C16_FailingSourceDisabled ==
  ret.op = "fetchAll" =>
    /\ ~ret.error
    /\ \A name \in DEXNames : ret.priceOf[name] = Throws => ~dexManager[name].isEnabled

\* C20: unsubscribeFromAll for a pair that no adapter has a subscription for does not
\* throw and leaves every adapter's subscriptions and the timers as they were; after
\* unsubscribeFromAll for a pair, a second call changes nothing.
C20_UnsubscribeAllIdempotent ==
  ret.op = "unsubscribeAll" =>
    /\ ~ret.error
    /\ (\A name \in DEXNames :
          /\ ~MapHas(ret.before.dexes[name].subscriptions, subscriptionKey(ret.pair))
          /\ ~MapHas(ret.before.dexes[name].subscriptions, intervalKey(ret.pair)))
         => Venues = ret.before
    /\ unsubscribeFromAll(Venues, ret.pair) = Venues

\* the second unsubscribeFromAll for a pair that had been subscribed
C20_Witness ==
  /\ ret.op = "unsubscribeAll"
  /\ Venues = ret.before
  /\ \E i \in 1..Len(timers) :
       timers[i].kind = "push" /\ ~timers[i].live /\ SamePair(timers[i].pair, ret.pair)

-----------------------------------------------------------------------------
(* Properties of the running system *)

Deliveries == {"push", "refresh"}

TimerFirings == {"push", "refresh", "healthCheck", "summaryDisplay", "sweep"}

\* how many reports of the tracker carry the opportunity with this id as reported
TimesTracked(id) ==
  Cardinality({ i \in 1..Len(opportunityTracker.opportunities) :
                  /\ opportunityTracker.opportunities[i].opportunity.id = id
                  /\ opportunityTracker.opportunities[i].reported })

\* how many entries of the opportunity history carry this id
TimesRecorded(id) ==
  Cardinality({ i \in 1..Len(dataManager.opportunityHistory.opportunities) :
                  dataManager.opportunityHistory.opportunities[i].id = id })

\* C1: every opportunity detectOpportunities returns, on a pushed quote or on the
\* periodic refresh, is tracked with reported = true exactly once and recorded in the
\* opportunity history exactly once; a candidate the gate filtered out is neither
\* tracked nor recorded.
C1_ReturnedTrackedOnce ==
  ret.op \in Deliveries =>
    /\ \A i \in 1..Len(ret.returned) :
         /\ TimesTracked(ret.returned[i].id) = 1
         /\ TimesRecorded(ret.returned[i].id) = 1
    /\ \A i \in 1..Len(ret.suppressed) :
         /\ \A j \in 1..Len(opportunityTracker.opportunities) :
              opportunityTracker.opportunities[j].opportunity.id # ret.suppressed[i].id
         /\ TimesRecorded(ret.suppressed[i].id) = 0

\* one refresh returned an opportunity and filtered another candidate out
C1_Witness ==
  /\ ret.op = "refresh"
  /\ Len(ret.returned) > 0
  /\ Len(ret.suppressed) > 0
  /\ TimesTracked(ret.returned[1].id) = 1

\* C2: two accepted reports for one key (pair by its addresses, buy venue, sell venue)
\* are never less than 30 seconds apart, whichever trigger ran the detection.
C2_RateLimitPerKey ==
  \A i, j \in 1..Len(opportunityTracker.opportunities) :
    LET a == opportunityTracker.opportunities[i].opportunity
        b == opportunityTracker.opportunities[j].opportunity
    IN (i < j /\ SamePair(a.pair, b.pair) /\ a.buyDex = b.buyDex /\ a.sellDex = b.sellDex)
         => b.timestamp - a.timestamp >= Cooldown

\* C2, for reports that also agree in the display symbols: the ledger, whose key is
\* built from the symbols and the venue names, keeps them at least 30 seconds apart.
C2_RateLimitPerSymbolKey ==
  \A i, j \in 1..Len(opportunityTracker.opportunities) :
    LET a == opportunityTracker.opportunities[i].opportunity
        b == opportunityTracker.opportunities[j].opportunity
    IN (i < j /\ opportunityKey(a) = opportunityKey(b))
         => b.timestamp - a.timestamp >= Cooldown

\* C3: start() called while the monitor is running, or while an earlier start() is
\* still suspended, is rejected with an error and leaves the monitored pairs and the
\* live timers as they were.
C3_StartWhileActiveRejected ==
  (ret.op = "start" /\ ret.wasActive) =>
    /\ ret.error
    /\ Len(monitor.monitoredPairs) = ret.pairsBefore
    /\ Cardinality({i \in 1..Len(timers) : timers[i].live}) = ret.timersBefore

\* C4: a stop() that follows a stop(), with no other call in between, releases nothing
\* (no timer, no subscription, not the transport, not the store) and leaves the state
\* as the first stop() left it.
C4_SecondStopReleasesNothing ==
  (ret.op = "stop" /\ ret.consecutive) => (ret.released = {} /\ ret.same)

\* C5: once stop() has returned no timer fires: not the refresh poll, the health check,
\* the summary display, the store's sweep, nor a venue's push timer.
C5_NoTimerAfterStop ==
  ret.op \in TimerFirings => ~ret.afterStop

\* C6: a pushed quote or a refresh result that arrives while the monitor is not running
\* is discarded: the store is not modified and no opportunity is returned, recorded or
\* tracked.
C6_StrayResultDiscarded ==
  (ret.op \in Deliveries /\ ~ret.running) =>
    (~ret.storeChanged /\ ret.returned = << >> /\ ret.suppressed = << >>)

\* C34: when stop() was called while a start() was suspended at the adapters'
\* initialization, then once that start() has finished too the monitor is not
\* running, no timer is live and no adapter holds a subscription.
C34_StopWinsOverPendingStart ==
  (ret.op = "start" /\ stopped /\ Idle) =>
    /\ ~monitor.isRunning
    /\ \A i \in 1..Len(timers) : ~timers[i].live
    /\ \A name \in DEXNames : dexManager[name].subscriptions = << >>

\* C17: the monitored pairs never hold two pairs with the same base and quote
\* addresses, whatever addPairToMonitor, removePairFromMonitor and start() calls
\* were made.
C17_NoDuplicatePairs ==
  \A i, j \in 1..Len(monitor.monitoredPairs) :
    i < j => ~SamePair(monitor.monitoredPairs[i], monitor.monitoredPairs[j])

\* C18: removePairFromMonitor of a monitored pair leaves it unmonitored, one pair
\* fewer counted, and no adapter with a live push timer for its addresses;
\* removePairFromMonitor of a pair that is not monitored changes nothing.
C18_RemovedPairIsGone ==
  ret.op = "removePair" =>
    IF ret.removed
      THEN /\ ~isPairMonitored(monitor, ret.pair)
           /\ Len(monitor.monitoredPairs) = Len(ret.pairsBefore) - 1
           /\ \A name \in DEXNames : PushTimers(timers, name, ret.pair) = {}
      ELSE /\ monitor.monitoredPairs = ret.pairsBefore
           /\ Venues = ret.before

\* C19: addPairToMonitor of a new pair while running leaves it subscribed on every
\* enabled adapter; while not running it changes no subscription and no timer; and
\* when start() has returned every monitored pair has exactly one live push timer on
\* every enabled adapter.
C19_SubscribedOncePerSource ==
  /\ (ret.op = "addPair" /\ ret.added /\ ret.running) =>
       \A name \in DEXNames :
         dexManager[name].isEnabled => PushTimers(timers, name, ret.pair) # {}
  /\ (ret.op = "addPair" /\ ret.added /\ ~ret.running) => Venues = ret.before
  /\ ret.op = "start" =>
       \A i \in 1..Len(monitor.monitoredPairs), name \in DEXNames :
         dexManager[name].isEnabled =>
           Cardinality(PushTimers(timers, name, monitor.monitoredPairs[i])) = 1

====
